---------------------------- MODULE Spec2Model ----------------------------
(***************************************************************************)
(* A model of ustd::MuSerial (muserial.h): the frame codec (sendOut, crc), *)
(* the byte-wise receiver and the link timers of loop(), the inbound path  *)
(* (internalPub), the outbound path (subsMsg) and the two block lists.     *)
(*                                                                         *)
(* Bytes are the naturals 0..255, a String is a sequence of non-zero bytes *)
(* (ASCII codes).  Uptime is counted in seconds, as Scheduler::getUptime() *)
(* reports it.                                                             *)
(***************************************************************************)
EXTENDS Naturals, Sequences, FiniteSets, TLC

VARIABLES
    \* ---- fields of MuSerial ----
    blockNum,           \* uint8_t: sequence number of the next frame written
    linkState,          \* "SYNC" | "HEADER" | "MSG" | "CRC"
    lastRead,           \* uptime at which the last byte was read
    lastMsg,            \* uptime at which the last frame was accepted
    lastPingSent,       \* uptime at which the last PING was written
    linkConnected,      \* session state
    remoteName,         \* name carried by the last PING dispatched
    outgoingBlockList,  \* ustd::array<String>
    incomingBlockList,  \* ustd::array<String>
    hd,                 \* header bytes assembled so far (hLen = Len(hd))
    msgLen,             \* declared payload length of the frame in assembly
    curMsg,             \* payload cursor
    msgBuf,             \* payload bytes stored inside the buffer's bounds
    allocated,          \* a payload buffer is held
    fo,                 \* footer bytes assembled so far (cLen = Len(fo))
    \* ---- environment ----
    now,                \* pSched->getUptime(), seconds
    held,               \* buffers malloc has handed out and free has not been given
    \* ---- record of the last operation (history, not program state) ----
    op,                 \* the operation that ran last
    arg,                \* the inputs of the last operation
    out,                \* frames written to the serial port by the last operation
    pubs,               \* pSched->publish calls made by the last operation
    disp,               \* frames the last loop() accepted and dispatched
    oob,                \* the last operation touched msgBuf outside its bounds
    ret,                \* return value of the last block-list call
    pre,                \* fields of MuSerial as they were before the last operation
    \* ---- fields of Net (net.h) ----
    mode,               \* Netmode: "OFF" | "AP" | "STATION"
    curState,           \* Netstate
    oldState,           \* Netstate at the last state publication
    reconnectMaxRetries,
    bRebootOnContinuedFailure,
    bOnceConnected,
    initialCounter,
    deathCounter,
    \* ---- record of the Net operations (history) ----
    netOp,              \* the Net operation that ran last
    restarted,          \* ESP.restart() was called
    timeouts,           \* connect timeouts in a row since the link was last up
    \* ---- fields of Ota (ota.h) ----
    bNetUp,
    bCheckOTA,
    bOTAUpdateActive,
    \* ---- environment of Ota ----
    singleTask,         \* the task Scheduler::singleTaskMode was last given
    updating,           \* ArduinoOTA is between onStart and onEnd / onError
    otaOp               \* the Ota handler that ran last (history)

serialVars ==
    <<blockNum, linkState, lastRead, lastMsg, lastPingSent, linkConnected,
      remoteName, outgoingBlockList, incomingBlockList, hd, msgLen, curMsg,
      msgBuf, allocated, fo, now, held, op, arg, out, pubs, disp, oob, ret, pre>>

netVars ==
    <<mode, curState, oldState, reconnectMaxRetries, bRebootOnContinuedFailure,
      bOnceConnected, initialCounter, deathCounter, netOp, restarted, timeouts>>

otaVars == <<bNetUp, bCheckOTA, bOTAUpdateActive, singleTask, updating, otaOp>>

vars == <<serialVars, netVars, otaVars>>

---------------------------------------------------------------------------
(* Protocol constants                                                      *)

SOH == 1
STX == 2
ETX == 3
EOT == 4
VER == 1
MUPING == 0
MQTT == 1
HeaderSize == 8
FooterSize == 4
MaxMsgLen == 1024
readTimeout == 5
pingReceiveTimeout == 10
pingPeriod == 5
LtoaRadix == 15

NUL == 0
Slash == 47
Hash == 35
Plus == 43
Star == 42

---------------------------------------------------------------------------
(* Strings (Arduino String) and bytes                                      *)

Min(a, b) == IF a < b THEN a ELSE b

\* String::substring(left, right): right is capped to the length, and a left
\* index at or beyond the end gives the empty string.
Substring(s, left, right) ==
    IF left >= Len(s) THEN <<>> ELSE SubSeq(s, left + 1, Min(right, Len(s)))

\* String::substring(left): to the end of the string.
SubstringFrom(s, left) == Substring(s, left, Len(s))

\* a ^ b on 4-bit values, indexed from 1.
XorNibble ==
    << <<0, 1, 2, 3, 4, 5, 6, 7, 8, 9, 10, 11, 12, 13, 14, 15>>,
       <<1, 0, 3, 2, 5, 4, 7, 6, 9, 8, 11, 10, 13, 12, 15, 14>>,
       <<2, 3, 0, 1, 6, 7, 4, 5, 10, 11, 8, 9, 14, 15, 12, 13>>,
       <<3, 2, 1, 0, 7, 6, 5, 4, 11, 10, 9, 8, 15, 14, 13, 12>>,
       <<4, 5, 6, 7, 0, 1, 2, 3, 12, 13, 14, 15, 8, 9, 10, 11>>,
       <<5, 4, 7, 6, 1, 0, 3, 2, 13, 12, 15, 14, 9, 8, 11, 10>>,
       <<6, 7, 4, 5, 2, 3, 0, 1, 14, 15, 12, 13, 10, 11, 8, 9>>,
       <<7, 6, 5, 4, 3, 2, 1, 0, 15, 14, 13, 12, 11, 10, 9, 8>>,
       <<8, 9, 10, 11, 12, 13, 14, 15, 0, 1, 2, 3, 4, 5, 6, 7>>,
       <<9, 8, 11, 10, 13, 12, 15, 14, 1, 0, 3, 2, 5, 4, 7, 6>>,
       <<10, 11, 8, 9, 14, 15, 12, 13, 2, 3, 0, 1, 6, 7, 4, 5>>,
       <<11, 10, 9, 8, 15, 14, 13, 12, 3, 2, 1, 0, 7, 6, 5, 4>>,
       <<12, 13, 14, 15, 8, 9, 10, 11, 4, 5, 6, 7, 0, 1, 2, 3>>,
       <<13, 12, 15, 14, 9, 8, 11, 10, 5, 4, 7, 6, 1, 0, 3, 2>>,
       <<14, 15, 12, 13, 10, 11, 8, 9, 6, 7, 4, 5, 2, 3, 0, 1>>,
       <<15, 14, 13, 12, 11, 10, 9, 8, 7, 6, 5, 4, 3, 2, 1, 0>> >>

\* c ^ buf[i] on unsigned char: the high and the low nibble separately.
Xor(a, b) ==
    16 * XorNibble[(a \div 16) + 1][(b \div 16) + 1]
        + XorNibble[(a % 16) + 1][(b % 16) + 1]

RECURSIVE crcFrom(_, _, _, _)
\* The loop of crc over buf[lo..hi], in order: the lower half, then the upper.
crcFrom(buf, lo, hi, c) ==
    IF lo > hi THEN c
    ELSE IF lo = hi THEN Xor(c, buf[lo])
    ELSE LET low == crcFrom(buf, lo, (lo + hi) \div 2, c)
         IN IF low \in 0..255 THEN crcFrom(buf, ((lo + hi) \div 2) + 1, hi, low) ELSE low

\* MuSerial::crc(buf, len, init): XOR of init and every byte of buf.
crc(buf, init) == crcFrom(buf, 1, Len(buf), init)

RECURSIVE Ltoa(_, _)
\* ltoa(value, str, radix) for value >= 0: digits '0'..'9', then 'a'...
Ltoa(v, radix) ==
    LET d == v % radix
        ch == IF d < 10 THEN 48 + d ELSE 87 + d
    IN IF v < radix THEN <<ch>> ELSE Append(Ltoa(v \div radix, radix), ch)

---------------------------------------------------------------------------
(* Frame codec: sendOut                                                    *)

\* SendHeader with a sequence number of seven bits.
SendHeaderShortNum(topic, msg, cmd, num) ==
    LET len == Len(topic) + Len(msg) + 2
    IN <<SOH, VER, num % 128, cmd, (len \div 256) % 256, len % 256, STX, 0>>

\* The T_HEADER sendOut fills in: soh, ver, num, cmd, hLen, lLen, stx, pad.
\* len is an unsigned int; hLen and lLen are uint8_t.
SendHeader(topic, msg, cmd, num) ==
    LET len == Len(topic) + Len(msg) + 2
    IN <<SOH, VER, num, cmd, (len \div 256) % 256, len % 256, STX, 0>>

\* The payload as sendOut writes it: topic, NUL, msg, NUL.
SendPayload(topic, msg) == topic \o <<NUL>> \o msg \o <<NUL>>

\* SendCrc with the checksum started at th.soh instead of th.ver.
SendCrcFromSoh(topic, msg, cmd, num) ==
    crc(<<ETX, 0>>, crc(SendPayload(topic, msg), crc(SendHeader(topic, msg, cmd, num), 0)))

\* The checksum sendOut computes: header from ver on, payload, etx and pad2.
SendCrc(topic, msg, cmd, num) ==
    LET c1 == crc(SubSeq(SendHeader(topic, msg, cmd, num), 2, HeaderSize), 0)
        c2 == crc(topic, c1)
        c3 == crc(<<NUL>>, c2)
        c4 == crc(msg, c3)
        c5 == crc(<<NUL>>, c4)
    IN crc(<<ETX, 0>>, c5)

\* All bytes sendOut hands to pSerial->write, in order.
SendOutBytes(topic, msg, cmd, num) ==
    SendHeader(topic, msg, cmd, num) \o SendPayload(topic, msg)
        \o <<ETX, 0, SendCrc(topic, msg, cmd, num), EOT>>

\* One sendOut call as recorded in `out`.
SentFrame(topic, msg, cmd, num) ==
    [cmd |-> cmd, topic |-> topic, msg |-> msg, num |-> num,
     bytes |-> SendOutBytes(topic, msg, cmd, num)]

---------------------------------------------------------------------------
(* Topic matching: Scheduler::mqttmatch of the muwerk scheduler library    *)

RECURSIVE SplitFrom(_, _, _)
SplitFrom(s, i, cur) ==
    IF i > Len(s) THEN <<cur>>
    ELSE IF s[i] = Slash THEN <<cur>> \o SplitFrom(s, i + 1, <<>>)
    ELSE SplitFrom(s, i + 1, Append(cur, s[i]))

\* The levels of a topic: the parts between the '/' separators.
Levels(s) == SplitFrom(s, 1, <<>>)

RECURSIVE MatchLevels(_, _)
MatchLevels(t, p) ==
    IF p = <<>> THEN t = <<>>
    ELSE IF Head(p) = <<Hash>> THEN Len(p) = 1
    ELSE IF t = <<>> THEN FALSE
    ELSE IF Head(p) \in {<<Plus>>, <<Star>>} \/ Head(p) = Head(t)
         THEN MatchLevels(Tail(t), Tail(p))
    ELSE FALSE

\* '#' matches the remaining levels, '+' and '*' one level, anything else itself.
mqttmatch(pubstr, substr) ==
    pubstr = substr \/ MatchLevels(Levels(pubstr), Levels(substr))

\* Blocked with the loop left after the first entry.
BlockedFirstOnly(topic, list) == Len(list) >= 1 /\ mqttmatch(topic, list[1])

\* The loop over a block list that subsMsg and internalPub both run.
Blocked(topic, list) == \E i \in 1..Len(list) : mqttmatch(topic, list[i])

---------------------------------------------------------------------------
(* Inbound path                                                            *)

\* Constructor argument `name`: this node is "A".
name == <<65>>

\* "connected", "disconnected" and name + "/link/" + remoteName
Connected == <<99, 111, 110, 110, 101, 99, 116, 101, 100>>
Disconnected == <<100, 105, 115>> \o Connected
LinkTopic(rName) == name \o <<Slash, 108, 105, 110, 107, Slash>> \o rName

NullPtr == [null |-> TRUE, data |-> <<>>]

Publish(topic, msg, originator) ==
    [topic |-> topic, msg |-> msg, originator |-> originator]

\* strlen() of the C string that starts at msgBuf[from]: the offset of the
\* first NUL.  Without a NUL inside the buffer the read runs past its end and
\* returns some value >= Len(buf) - from; the callers only compare the result
\* against msgLen, and every such value fails that comparison.
Strlen(buf, from) ==
    LET nuls == {i \in (from + 1)..Len(buf) : buf[i] = NUL}
    IN IF nuls = {} THEN Len(buf) - from
       ELSE (CHOOSE i \in nuls : \A j \in nuls : i <= j) - 1 - from

StrlenOverruns(buf, from) == \A i \in (from + 1)..Len(buf) : buf[i] # NUL

\* The C string that starts at msgBuf[from], when it ends inside the buffer.
CStr(buf, from) == SubSeq(buf, from + 1, from + Strlen(buf, from))

\* StripTopicAt with neither prefix test.
StripTopicNone(nName, topic, rName) == topic

\* The two prefix tests of lines 337-344 on a node called nName whose peer is
\* called rName.
StripTopicAt(nName, topic, rName) ==
    LET pre2 == rName \o <<Slash>>
        pre1 == nName \o <<Slash>>
        t1 == IF Substring(topic, 0, Len(pre1)) = pre1
              THEN SubstringFrom(topic, Len(pre1)) ELSE topic
    IN IF Substring(t1, 0, Len(pre2)) = pre1
       THEN SubstringFrom(t1, Len(pre2)) ELSE t1

\* The topic internalPub publishes under on this node.
StripTopic(topic, rName) == StripTopicAt(name, topic, rName)

\* internalPub without the block-list loop.
internalPubUnfiltered(r, topic, msg) ==
    [r EXCEPT !.pubs = Append(@, Publish(StripTopic(topic, r.remoteName),
                                         msg, r.remoteName))]

\* internalPub publishing under the stripped topic prefixed with the peer's
\* name.
internalPubPrefixed(r, topic, msg) ==
    IF Blocked(topic, incomingBlockList) THEN r
    ELSE [r EXCEPT !.pubs = Append(@, Publish(r.remoteName \o <<Slash>>
                                                \o StripTopic(topic, r.remoteName),
                                              msg, r.remoteName))]

\* internalPub(topic, msg) on the session record r.
internalPub(r, topic, msg) ==
    IF Blocked(topic, incomingBlockList) THEN r
    ELSE [r EXCEPT !.pubs = Append(@, Publish(StripTopic(topic, r.remoteName),
                                              msg, r.remoteName))]

\* FreeBuf that never calls free.
FreeBufNone(r) == r

\* free(msgBuf) as guarded at every exit of the CRC state and in the timeout.
FreeBuf(r) ==
    IF r.allocated /\ ~r.msgBuf.null
    THEN [r EXCEPT !.msgBuf = NullPtr, !.allocated = FALSE, !.held = @ - 1]
    ELSE r

\* linkState = SYNC.  The header, footer, length and cursor of the frame just
\* left are dead from here on (each is rewritten before it is read again), so
\* they are reset to keep equal receiver states equal.
ToSync(r) ==
    [r EXCEPT !.linkState = "SYNC", !.hd = <<>>, !.fo = <<>>,
              !.msgLen = 0, !.curMsg = 0]

\* Command publishing the connected event on every PING.
CommandEveryPing(r, cmd, topic, msg) ==
    IF cmd = MUPING
    THEN [r EXCEPT !.remoteName = msg, !.linkConnected = TRUE,
                   !.pubs = Append(@, Publish(LinkTopic(msg), Connected, name))]
    ELSE IF cmd = MQTT THEN internalPub(r, topic, msg)
    ELSE r

\* Command connecting the session on a FORWARD frame as well.
CommandForwardConnects(r, cmd, topic, msg) ==
    IF cmd = MUPING
    THEN LET r1 == [r EXCEPT !.remoteName = msg] IN
         IF ~r1.linkConnected
         THEN [r1 EXCEPT !.linkConnected = TRUE,
                         !.pubs = Append(@, Publish(LinkTopic(msg), Connected, name))]
         ELSE r1
    ELSE IF cmd = MQTT THEN internalPub([r EXCEPT !.linkConnected = TRUE], topic, msg)
    ELSE r

\* Command that takes the name from a PING only while the session is not
\* connected.
CommandKeepsName(r, cmd, topic, msg) ==
    IF cmd = MUPING
    THEN IF ~r.linkConnected
         THEN [r EXCEPT !.remoteName = msg, !.linkConnected = TRUE,
                        !.pubs = Append(@, Publish(LinkTopic(msg), Connected, name))]
         ELSE r
    ELSE IF cmd = MQTT THEN internalPub(r, topic, msg)
    ELSE r

\* Command that handles every command value other than PING as a FORWARD.
CommandDefaultForward(r, cmd, topic, msg) ==
    IF cmd = MUPING
    THEN LET r1 == [r EXCEPT !.remoteName = msg] IN
         IF ~r1.linkConnected
         THEN [r1 EXCEPT !.linkConnected = TRUE,
                         !.pubs = Append(@, Publish(LinkTopic(msg), Connected, name))]
         ELSE r1
    ELSE internalPub(r, topic, msg)

\* The switch on hd.cmd of a frame whose payload holds both NULs.
Command(r, cmd, topic, msg) ==
    IF cmd = MUPING
    THEN LET r1 == [r EXCEPT !.remoteName = msg] IN
         IF ~r1.linkConnected
         THEN [r1 EXCEPT !.linkConnected = TRUE,
                         !.pubs = Append(@, Publish(LinkTopic(msg), Connected, name))]
         ELSE r1
    ELSE IF cmd = MQTT THEN internalPub(r, topic, msg)
    ELSE r

\* Dispatch refreshing lastMsg on PING frames only.
DispatchPingRefreshes(r, t) ==
    LET buf == r.msgBuf.data
        s == Strlen(buf, 0)
        ok1 == s + 2 <= r.msgLen
        r1 == IF ok1 /\ r.hd[4] = MUPING THEN [r EXCEPT !.lastMsg = t] ELSE r
        ok2 == ok1 /\ Strlen(buf, s + 1) + s + 2 <= r.msgLen
        topic == CStr(buf, 0)
        msg == CStr(buf, s + 1)
        r3 == IF ok2
              THEN Command([r1 EXCEPT !.disp = Append(@, [cmd |-> r.hd[4], topic |-> topic,
                                                          msg |-> msg])],
                           r.hd[4], topic, msg)
              ELSE r1
    IN ToSync(FreeBuf(r3))

\* A frame whose markers and checksum are right (lines 440-475).
Dispatch(r, t) ==
    LET buf == r.msgBuf.data
        s == Strlen(buf, 0)
        ok1 == s + 2 <= r.msgLen
        r1 == IF ok1 THEN [r EXCEPT !.lastMsg = t] ELSE r
        ok2 == ok1 /\ Strlen(buf, s + 1) + s + 2 <= r.msgLen
        topic == CStr(buf, 0)
        msg == CStr(buf, s + 1)
        over == StrlenOverruns(buf, 0) \/ (ok1 /\ StrlenOverruns(buf, s + 1))
        r2 == [r1 EXCEPT !.oob = @ \/ over]
        r3 == IF ok2
              THEN Command([r2 EXCEPT !.disp = Append(@, [cmd |-> r.hd[4], topic |-> topic,
                                                          msg |-> msg])],
                           r.hd[4], topic, msg)
              ELSE r2
    IN ToSync(FreeBuf(r3))

\* The checksum of the frame held in hd, msgBuf and fo, as loop() computes it.
RecvCrc(r) ==
    crc(SubSeq(r.fo, 1, 2), crc(r.msgBuf.data, crc(SubSeq(r.hd, 2, HeaderSize), 0)))

\* HeaderComplete without the test msgLen < 1024.
HeaderCompleteNoBound(r, mallocOk) ==
    IF r.hd[2] # VER \/ r.hd[7] # STX THEN ToSync(r)
    ELSE IF mallocOk
         THEN [r EXCEPT !.msgLen = 256 * r.hd[5] + r.hd[6], !.curMsg = 0,
                        !.linkState = "MSG",
                        !.msgBuf = [null |-> FALSE, data |-> <<>>],
                        !.allocated = TRUE, !.held = @ + 1]
         ELSE ToSync([r EXCEPT !.msgBuf = NullPtr])

\* case HEADER, once hLen == sizeof(hd).
HeaderComplete(r, mallocOk) ==
    IF r.hd[2] # VER \/ r.hd[7] # STX THEN ToSync(r)
    ELSE LET len == 256 * r.hd[5] + r.hd[6] IN
         IF len < MaxMsgLen
         THEN IF mallocOk
              THEN [r EXCEPT !.msgLen = len, !.curMsg = 0, !.linkState = "MSG",
                             !.msgBuf = [null |-> FALSE, data |-> <<>>],
                             !.allocated = TRUE, !.held = @ + 1]
              ELSE ToSync([r EXCEPT !.msgBuf = NullPtr])
         ELSE ToSync(r)

\* FooterComplete without the comparison of ccrc and fo.crc.
FooterCompleteNoCrc(r, t) ==
    IF r.fo[1] # ETX \/ r.fo[4] # EOT THEN ToSync(FreeBuf(r))
    ELSE Dispatch(r, t)

\* FooterComplete without the test of fo.eot.
FooterCompleteNoEot(r, t) ==
    IF r.fo[1] # ETX THEN ToSync(FreeBuf(r))
    ELSE IF RecvCrc(r) # r.fo[3] THEN ToSync(FreeBuf(r))
    ELSE Dispatch(r, t)

\* case CRC, once cLen == sizeof(fo).
FooterComplete(r, t) ==
    IF r.fo[1] # ETX \/ r.fo[4] # EOT THEN ToSync(FreeBuf(r))
    ELSE IF RecvCrc(r) # r.fo[3] THEN ToSync(FreeBuf(r))
    ELSE Dispatch(r, t)

\* RecvByte that takes every byte with the value of SOH as the start of a
\* frame, whatever the state.
RecvByteResync(r0, c, t, mallocOk) ==
    LET r == [r0 EXCEPT !.lastRead = t] IN
    IF c = SOH
    THEN [FreeBuf(ToSync(r)) EXCEPT !.linkState = "HEADER", !.hd = <<SOH>>]
    ELSE CASE r.linkState = "SYNC" -> r
           [] r.linkState = "HEADER" ->
                LET r1 == [r EXCEPT !.hd = Append(@, c)] IN
                IF Len(r1.hd) = HeaderSize THEN HeaderComplete(r1, mallocOk) ELSE r1
           [] r.linkState = "MSG" ->
                LET inb == r.curMsg < r.msgLen
                    r1 == [r EXCEPT !.msgBuf.data = IF inb THEN Append(@, c) ELSE @,
                                    !.oob = @ \/ ~inb,
                                    !.curMsg = (@ + 1) % 65536]
                IN IF r1.curMsg = r1.msgLen
                   THEN [r1 EXCEPT !.linkState = "CRC", !.fo = <<>>] ELSE r1
           [] r.linkState = "CRC" ->
                LET r1 == [r EXCEPT !.fo = Append(@, c)] IN
                IF Len(r1.fo) = FooterSize THEN FooterComplete(r1, t) ELSE r1

\* One pass of the while loop: read byte c at uptime t.
RecvByte(r0, c, t, mallocOk) ==
    LET r == [r0 EXCEPT !.lastRead = t] IN
    CASE r.linkState = "SYNC" ->
            IF c = SOH THEN [r EXCEPT !.linkState = "HEADER", !.hd = <<SOH>>] ELSE r
      [] r.linkState = "HEADER" ->
            LET r1 == [r EXCEPT !.hd = Append(@, c)] IN
            IF Len(r1.hd) = HeaderSize THEN HeaderComplete(r1, mallocOk) ELSE r1
      [] r.linkState = "MSG" ->
            \* msgBuf[curMsg] = c: inside the buffer, or beyond it
            LET inb == r.curMsg < r.msgLen
                r1 == [r EXCEPT !.msgBuf.data = IF inb THEN Append(@, c) ELSE @,
                                !.oob = @ \/ ~inb,
                                !.curMsg = (@ + 1) % 65536]
            IN IF r1.curMsg = r1.msgLen
               THEN [r1 EXCEPT !.linkState = "CRC", !.fo = <<>>] ELSE r1
      [] r.linkState = "CRC" ->
            LET r1 == [r EXCEPT !.fo = Append(@, c)] IN
            IF Len(r1.fo) = FooterSize THEN FooterComplete(r1, t) ELSE r1

RECURSIVE RecvFrom(_, _, _, _, _, _)
\* The passes of the while loop over bytes[lo..hi], in order: the lower half,
\* then the upper.
RecvFrom(r, bytes, lo, hi, t, mallocOk) ==
    IF lo > hi THEN r
    ELSE IF lo = hi THEN RecvByte(r, bytes[lo], t, mallocOk)
    ELSE LET low == RecvFrom(r, bytes, lo, (lo + hi) \div 2, t, mallocOk)
         IN IF low.linkState \in {"SYNC", "HEADER", "MSG", "CRC"}
            THEN RecvFrom(low, bytes, ((lo + hi) \div 2) + 1, hi, t, mallocOk)
            ELSE low

\* RecvAll that starts every invocation in SYNC: the cursor is not retained.
RecvAllRestart(r, bytes, t, mallocOk) ==
    RecvFrom(ToSync(r), bytes, 1, Len(bytes), t, mallocOk)

\* while (pSerial->available() > 0): every byte the port holds, in order.
RecvAll(r, bytes, t, mallocOk) == RecvFrom(r, bytes, 1, Len(bytes), t, mallocOk)

\* Timers that publish the event but leave linkConnected set in the idle branch.
TimersKeepConnected(r, t) ==
    IF r.linkConnected \/ r.linkState # "SYNC"
    THEN IF r.linkState # "SYNC"
         THEN IF t - r.lastRead > readTimeout
              THEN FreeBuf(ToSync(
                     [r EXCEPT !.linkConnected = FALSE,
                               !.pubs = IF r.linkConnected
                                        THEN Append(@, Publish(LinkTopic(r.remoteName),
                                                               Disconnected, name))
                                        ELSE @]))
              ELSE r
         ELSE IF t - r.lastMsg > pingReceiveTimeout
              THEN [r EXCEPT !.pubs = IF r.linkConnected
                                      THEN Append(@, Publish(LinkTopic(r.remoteName),
                                                             Disconnected, name))
                                      ELSE @]
              ELSE r
    ELSE r

\* Timers whose read timeout publishes the event whether or not the link was
\* connected.
TimersEveryTimeout(r, t) ==
    IF r.linkConnected \/ r.linkState # "SYNC"
    THEN IF r.linkState # "SYNC"
         THEN IF t - r.lastRead > readTimeout
              THEN FreeBuf(ToSync(
                     [r EXCEPT !.linkConnected = FALSE,
                               !.pubs = Append(@, Publish(LinkTopic(r.remoteName),
                                                          Disconnected, name))]))
              ELSE r
         ELSE IF t - r.lastMsg > pingReceiveTimeout
              THEN [r EXCEPT !.linkConnected = FALSE,
                             !.pubs = IF r.linkConnected
                                      THEN Append(@, Publish(LinkTopic(r.remoteName),
                                                             Disconnected, name))
                                      ELSE @]
              ELSE r
    ELSE r

\* Timers whose read timeout leaves the receiver where it is, buffer and all.
TimersHoldFrame(r, t) ==
    IF r.linkConnected \/ r.linkState # "SYNC"
    THEN IF r.linkState # "SYNC"
         THEN IF t - r.lastRead > readTimeout
              THEN [r EXCEPT !.linkConnected = FALSE,
                             !.pubs = IF r.linkConnected
                                      THEN Append(@, Publish(LinkTopic(r.remoteName),
                                                             Disconnected, name))
                                      ELSE @]
              ELSE r
         ELSE IF t - r.lastMsg > pingReceiveTimeout
              THEN [r EXCEPT !.linkConnected = FALSE,
                             !.pubs = IF r.linkConnected
                                      THEN Append(@, Publish(LinkTopic(r.remoteName),
                                                             Disconnected, name))
                                      ELSE @]
              ELSE r
    ELSE r

\* Timers whose read timeout publishes no event.
TimersNoEvent(r, t) ==
    IF r.linkConnected \/ r.linkState # "SYNC"
    THEN IF r.linkState # "SYNC"
         THEN IF t - r.lastRead > readTimeout
              THEN FreeBuf(ToSync([r EXCEPT !.linkConnected = FALSE]))
              ELSE r
         ELSE IF t - r.lastMsg > pingReceiveTimeout
              THEN [r EXCEPT !.linkConnected = FALSE,
                             !.pubs = IF r.linkConnected
                                      THEN Append(@, Publish(LinkTopic(r.remoteName),
                                                             Disconnected, name))
                                      ELSE @]
              ELSE r
    ELSE r

\* Timers with >= in place of > in the ping-receive test.
TimersEarly(r, t) ==
    IF r.linkConnected \/ r.linkState # "SYNC"
    THEN IF r.linkState # "SYNC"
         THEN IF t - r.lastRead > readTimeout
              THEN FreeBuf(ToSync(
                     [r EXCEPT !.linkConnected = FALSE,
                               !.pubs = IF r.linkConnected
                                        THEN Append(@, Publish(LinkTopic(r.remoteName),
                                                               Disconnected, name))
                                        ELSE @]))
              ELSE r
         ELSE IF t - r.lastMsg >= pingReceiveTimeout
              THEN [r EXCEPT !.linkConnected = FALSE,
                             !.pubs = IF r.linkConnected
                                      THEN Append(@, Publish(LinkTopic(r.remoteName),
                                                             Disconnected, name))
                                      ELSE @]
              ELSE r
    ELSE r

\* The two timeouts checked after the bytes are consumed (lines 483-505).
Timers(r, t) ==
    IF r.linkConnected \/ r.linkState # "SYNC"
    THEN IF r.linkState # "SYNC"
         THEN IF t - r.lastRead > readTimeout
              THEN FreeBuf(ToSync(
                     [r EXCEPT !.linkConnected = FALSE,
                               !.pubs = IF r.linkConnected
                                        THEN Append(@, Publish(LinkTopic(r.remoteName),
                                                               Disconnected, name))
                                        ELSE @]))
              ELSE r
         ELSE IF t - r.lastMsg > pingReceiveTimeout
              THEN [r EXCEPT !.linkConnected = FALSE,
                             !.pubs = IF r.linkConnected
                                      THEN Append(@, Publish(LinkTopic(r.remoteName),
                                                             Disconnected, name))
                                      ELSE @]
              ELSE r
    ELSE r

---------------------------------------------------------------------------
(* State and operations                                                    *)

\* The fields the claims compare across one operation.
Snapshot ==
    [linkConnected |-> linkConnected, linkState |-> linkState, lastMsg |-> lastMsg,
     lastRead |-> lastRead, lastPingSent |-> lastPingSent, remoteName |-> remoteName,
     blockNum |-> blockNum, allocated |-> allocated,
     outgoingBlockList |-> outgoingBlockList, incomingBlockList |-> incomingBlockList]

\* The receiver and session fields loop() works on, with empty output records.
Session ==
    [linkState |-> linkState, hd |-> hd, msgLen |-> msgLen, curMsg |-> curMsg,
     msgBuf |-> msgBuf, allocated |-> allocated, fo |-> fo, lastRead |-> lastRead,
     lastMsg |-> lastMsg, remoteName |-> remoteName, linkConnected |-> linkConnected,
     held |-> held, pubs |-> <<>>, disp |-> <<>>, oob |-> FALSE]

\* ping(): the PING frame, payload ltoa(uptime) NUL name NUL.
PingFrame(t, num) == SentFrame(Ltoa(t, LtoaRadix), name, MUPING, num)

\* Scheduler::singleTaskMode(-1): no task runs alone.
NoTask == "none"

\* The state begin() leaves: receiver in SYNC, one PING written.  Net and Ota
\* are as their constructors leave them; Net's mode and its three retry fields
\* have no initializer and are written by startServices and startSTATION
\* before they are read.
Init ==
    /\ mode = "OFF"
    /\ curState = "NOTCONFIGURED"
    /\ oldState = "NOTDEFINED"
    /\ reconnectMaxRetries = 40
    /\ bRebootOnContinuedFailure = TRUE
    /\ bOnceConnected = FALSE
    /\ initialCounter = 0
    /\ deathCounter = 0
    /\ netOp = "Net"
    /\ restarted = FALSE
    /\ timeouts = 0
    /\ bNetUp = FALSE
    /\ bCheckOTA = FALSE
    /\ bOTAUpdateActive = FALSE
    /\ singleTask = NoTask
    /\ updating = FALSE
    /\ otaOp = "Ota"
    /\ blockNum = 1
    /\ linkState = "SYNC"
    /\ lastRead = 0
    /\ lastMsg = 0
    /\ lastPingSent = 0
    /\ linkConnected = FALSE
    /\ remoteName = <<>>
    /\ outgoingBlockList = <<>>
    /\ incomingBlockList = <<>>
    /\ hd = <<>>
    /\ msgLen = 0
    /\ curMsg = 0
    /\ msgBuf = NullPtr
    /\ allocated = FALSE
    /\ fo = <<>>
    /\ now = 0
    /\ held = 0
    /\ op = "begin"
    /\ arg = <<>>
    /\ out = <<PingFrame(0, 0)>>
    /\ pubs = <<>>
    /\ disp = <<>>
    /\ oob = FALSE
    /\ ret = TRUE
    /\ pre = Snapshot

\* PingDue with >= in place of >.
PingDueEarly(t) == t - lastPingSent >= pingPeriod

\* The periodic-ping test at the head of loop().
PingDue(t) == t - lastPingSent > pingPeriod

\* loop(), called dt seconds after the previous operation, with `bytes` waiting
\* in the serial port; mallocOk is what malloc answers during this call.
loop(dt, bytes, mallocOk) ==
    \E t \in {now + dt} : \E r \in {Timers(RecvAll(Session, bytes, t, mallocOk), t)} :
       /\ now' = t
       /\ out' = IF PingDue(t) THEN <<PingFrame(t, blockNum)>> ELSE <<>>
       /\ blockNum' = IF PingDue(t) THEN (blockNum + 1) % 256 ELSE blockNum
       /\ lastPingSent' = IF PingDue(t) THEN t ELSE lastPingSent
       /\ linkState' = r.linkState
       /\ hd' = r.hd
       /\ msgLen' = r.msgLen
       /\ curMsg' = r.curMsg
       /\ msgBuf' = r.msgBuf
       /\ allocated' = r.allocated
       /\ fo' = r.fo
       /\ lastRead' = r.lastRead
       /\ lastMsg' = r.lastMsg
       /\ remoteName' = r.remoteName
       /\ linkConnected' = r.linkConnected
       /\ held' = r.held
       /\ pubs' = r.pubs
       /\ disp' = r.disp
       /\ oob' = r.oob
       /\ op' = "loop"
       /\ arg' = [dt |-> dt, bytes |-> bytes, mallocOk |-> mallocOk]
       /\ ret' = TRUE
       /\ pre' = Snapshot
       /\ UNCHANGED <<outgoingBlockList, incomingBlockList, netVars, otaVars>>

\* ReceiverUnchanged for an operation that marks the link as down.
ReceiverLinkDown ==
    /\ linkConnected' = FALSE
    /\ UNCHANGED <<linkState, lastRead, lastMsg, remoteName,
                   hd, msgLen, curMsg, msgBuf, allocated, fo, now, held>>

\* Everything an operation other than loop() leaves alone in the receiver.
ReceiverUnchanged ==
    UNCHANGED <<linkState, lastRead, lastMsg, linkConnected, remoteName,
                hd, msgLen, curMsg, msgBuf, allocated, fo, now, held>>

\* sendOut(topic, msg, cmd) called on its own: one frame written, blockNum++.
sendOut(topic, msg, cmd) ==
    /\ out' = <<SentFrame(topic, msg, cmd, blockNum)>>
    /\ blockNum' = (blockNum + 1) % 256
    /\ op' = "sendOut"
    /\ arg' = [topic |-> topic, msg |-> msg, cmd |-> cmd]
    /\ pubs' = <<>>
    /\ disp' = <<>>
    /\ oob' = FALSE
    /\ ret' = TRUE
    /\ pre' = Snapshot
    /\ ReceiverUnchanged
    /\ UNCHANGED <<lastPingSent, outgoingBlockList, incomingBlockList, netVars, otaVars>>

\* LoopPrevented comparing against this node's name instead of the peer's.
LoopPreventedOwnName(originator) == originator = name

\* LoopPrevented with a second test against this node's own name.
LoopPreventedEither(originator) == originator = remoteName \/ originator = name

\* subsMsg, first test: the message came from the peer (lines 510-514).
LoopPrevented(originator) == originator = remoteName

\* WireTopicTo prefixing the topic with the sender's own name.
WireTopicOwnName(rName, topic) ==
    LET prefix == name \o <<Slash>>
    IN IF Substring(topic, 0, Len(prefix)) = prefix
       THEN topic
       ELSE name \o <<Slash>> \o topic

\* WireTopicTo prefixing every topic, prefixed already or not.
WireTopicAlways(rName, topic) == rName \o <<Slash>> \o topic

\* subsMsg, the topic written to the wire (lines 522-527) by a node whose peer
\* is called rName.
WireTopicTo(rName, topic) ==
    LET prefix == rName \o <<Slash>>
    IN IF Substring(topic, 0, Len(prefix)) = prefix
       THEN topic
       ELSE rName \o <<Slash>> \o topic

\* The topic this node writes to the wire.
WireTopic(topic) == WireTopicTo(remoteName, topic)

\* subsMsg reaches one of its two sendOut calls.
Forwards(topic, originator) ==
    ~LoopPrevented(originator) /\ ~Blocked(topic, outgoingBlockList)

\* The body of subsMsg(topic, msg, originator): what the call writes to the
\* port and to the fields.
subsMsgCall(topic, msg, originator) ==
    /\ out' = IF Forwards(topic, originator)
              THEN <<SentFrame(WireTopic(topic), msg, MQTT, blockNum)>>
              ELSE <<>>
    /\ blockNum' = IF Forwards(topic, originator) THEN (blockNum + 1) % 256 ELSE blockNum
    /\ arg' = [topic |-> topic, msg |-> msg, originator |-> originator]
    /\ disp' = <<>>
    /\ oob' = FALSE
    /\ ret' = TRUE
    /\ pre' = Snapshot
    /\ ReceiverUnchanged
    /\ UNCHANGED <<lastPingSent, outgoingBlockList, incomingBlockList, netVars, otaVars>>

\* subsMsg(topic, msg, originator): the scheduler delivers a bus message that
\* some other task published.
subsMsg(topic, msg, originator) ==
    /\ subsMsgCall(topic, msg, originator)
    /\ op' = "subsMsg"
    /\ pubs' = <<>>

\* The scheduler delivers the oldest message this task published in its last
\* loop() to the task's own subscription on "#": messages published inside
\* loop() are queued and handed to subsMsg after loop() has returned. pubs
\* keeps the messages still queued.
deliver ==
    /\ op \in {"loop", "deliver"}
    /\ pubs # <<>>
    /\ subsMsgCall(Head(pubs).topic, Head(pubs).msg, Head(pubs).originator)
    /\ op' = "deliver"
    /\ pubs' = Tail(pubs)

\* The search loop of the four block-list calls: the index of the entry
\* identical to topic, 0 when there is none.
IndexOf(list, topic) ==
    IF \E i \in 1..Len(list) : list[i] = topic
    THEN CHOOSE i \in 1..Len(list) :
            list[i] = topic /\ \A j \in 1..(i - 1) : list[j] # topic
    ELSE 0

\* Erase dropping the last entry, whatever the index.
EraseLast(list, i) == SubSeq(list, 1, Len(list) - 1)

\* ustd::array::erase(i), i counted from 1 here.
Erase(list, i) == SubSeq(list, 1, i - 1) \o SubSeq(list, i + 1, Len(list))

\* The list after ...BlockSet(topic); addOk: ustd::array::add found room.
BlockSet(list, topic, addOk) ==
    IF IndexOf(list, topic) # 0 THEN list
    ELSE IF addOk THEN Append(list, topic) ELSE list

\* BlockSetResult answering true for an entry that is already in the list.
BlockSetResultPresent(list, topic, addOk) == IndexOf(list, topic) # 0 \/ addOk

\* What ...BlockSet(topic) returns.
BlockSetResult(list, topic, addOk) == IndexOf(list, topic) = 0 /\ addOk

\* The list after ...BlockRemove(topic).
BlockRemove(list, topic) ==
    IF IndexOf(list, topic) # 0 THEN Erase(list, IndexOf(list, topic)) ELSE list

\* What ...BlockRemove(topic) returns.
BlockRemoveResult(list, topic) == IndexOf(list, topic) # 0

\* What a block-list call records and leaves alone.
BlockCall(opName, topic) ==
    /\ op' = opName
    /\ arg' = [topic |-> topic]
    /\ out' = <<>>
    /\ pubs' = <<>>
    /\ disp' = <<>>
    /\ oob' = FALSE
    /\ pre' = Snapshot
    /\ ReceiverUnchanged
    /\ UNCHANGED <<blockNum, lastPingSent, netVars, otaVars>>

outgoingBlockSet(topic, addOk) ==
    /\ outgoingBlockList' = BlockSet(outgoingBlockList, topic, addOk)
    /\ ret' = BlockSetResult(outgoingBlockList, topic, addOk)
    /\ BlockCall("outgoingBlockSet", topic)
    /\ UNCHANGED incomingBlockList

outgoingBlockRemove(topic) ==
    /\ outgoingBlockList' = BlockRemove(outgoingBlockList, topic)
    /\ ret' = BlockRemoveResult(outgoingBlockList, topic)
    /\ BlockCall("outgoingBlockRemove", topic)
    /\ UNCHANGED incomingBlockList

incomingBlockSet(topic, addOk) ==
    /\ incomingBlockList' = BlockSet(incomingBlockList, topic, addOk)
    /\ ret' = BlockSetResult(incomingBlockList, topic, addOk)
    /\ BlockCall("incomingBlockSet", topic)
    /\ UNCHANGED outgoingBlockList

incomingBlockRemove(topic) ==
    /\ incomingBlockList' = BlockRemove(incomingBlockList, topic)
    /\ ret' = BlockRemoveResult(incomingBlockList, topic)
    /\ BlockCall("incomingBlockRemove", topic)
    /\ UNCHANGED outgoingBlockList

---------------------------------------------------------------------------
(* The peer: a second node running the same code                           *)

PeerB == <<66>>
PeerC == <<67>>
TopicT == <<116>>
MsgM == <<109>>

MaxTime == 11
PeerUptime == 7
PeerNum == 5

\* Frames as the peer's sendOut writes them.
PeerPing(peer) == SendOutBytes(Ltoa(PeerUptime, LtoaRadix), peer, MUPING, PeerNum)
PeerForward(topic, msg) == SendOutBytes(topic, msg, MQTT, PeerNum)

\* A frame with one byte replaced.
Corrupt(bytes, i, v) == [bytes EXCEPT ![i] = v]

FwdAT == PeerForward(name \o <<Slash>> \o TopicT, MsgM)

\* What the serial port may hold when loop() runs in the link specification:
\* nothing, a whole frame, a frame cut in two, a frame with a wrong checksum,
\* a frame with a wrong ETX.
LinkChunks ==
    { <<>>, PeerPing(PeerB), FwdAT,
      SubSeq(FwdAT, 1, HeaderSize + 1), SubSeq(FwdAT, HeaderSize + 2, Len(FwdAT)),
      Corrupt(FwdAT, Len(FwdAT) - 1, Xor(FwdAT[Len(FwdAT) - 1], 1)),
      Corrupt(FwdAT, Len(FwdAT) - FooterSize + 1, 65) }

\* malloc answers NULL in one case: while the whole frame is read.
LinkInputs ==
    {<<bytes, TRUE>> : bytes \in LinkChunks} \cup {<<FwdAT, FALSE>>}

LinkLoop ==
    \E dt \in 0..1, in \in LinkInputs :
        /\ now + dt <= MaxTime
        /\ loop(dt, in[1], in[2])

NextLink == LinkLoop

SpecLink == Init /\ [][NextLink]_vars

---------------------------------------------------------------------------
(* The bridge specification: bus messages, block lists and whole frames    *)

LocalTask == <<120>>
BridgeMaxTime == 1
MaxBlockNum == 3

\* "t" and "B/t"
BusTopics == {TopicT, PeerB \o <<Slash>> \o TopicT}
\* publish(topic, msg) without a third argument, as in net.h line 255
NoOriginator == <<>>
Originators == {LocalTask, NoOriginator, name, PeerB, PeerC}
\* "B/#" and "+"
OutPatterns == {PeerB \o <<Slash, Hash>>, <<Plus>>}
\* "A/#" and "t"
InPatterns == {name \o <<Slash, Hash>>, TopicT}

\* Whole frames from the peer: its PING under either name, and FORWARD frames
\* with the topic prefixed by this node's name, by the peer's, or not at all.
BridgeChunks ==
    { PeerPing(PeerB), PeerPing(PeerC), FwdAT,
      PeerForward(TopicT, MsgM), PeerForward(PeerB \o <<Slash>> \o TopicT, MsgM) }

BusMessage ==
    \E topic \in BusTopics, originator \in Originators :
        /\ blockNum < MaxBlockNum
        /\ subsMsg(topic, MsgM, originator)

OutgoingSet == \E topic \in OutPatterns, addOk \in BOOLEAN : outgoingBlockSet(topic, addOk)

OutgoingRemove == \E topic \in OutPatterns : outgoingBlockRemove(topic)

IncomingSet == \E topic \in InPatterns, addOk \in BOOLEAN : incomingBlockSet(topic, addOk)

IncomingRemove == \E topic \in InPatterns : incomingBlockRemove(topic)

BridgeLoop ==
    \E dt \in 0..1, bytes \in BridgeChunks :
        /\ now + dt <= BridgeMaxTime
        /\ loop(dt, bytes, TRUE)

Next ==
    \/ BusMessage
    \/ OutgoingSet
    \/ OutgoingRemove
    \/ IncomingSet
    \/ IncomingRemove
    \/ BridgeLoop

Spec == Init /\ [][Next]_vars

---------------------------------------------------------------------------
(* The codec specification: sendOut wired back to the receiver             *)

MaxLen == 2
MaxCodecFrames == 2

\* Bytes a String may hold: a letter, and the value of the start marker.
CodecAlphabet == {65, SOH}

StringsUpTo(n) == UNION {[1..k -> CodecAlphabet] : k \in 0..n}

CodecStrings == StringsUpTo(MaxLen)

CodecSend ==
    \E topic \in CodecStrings, msg \in CodecStrings :
        /\ blockNum < MaxCodecFrames
        /\ sendOut(topic, msg, MQTT)

\* The frame just written arrives whole at the receiver.
CodecLoop ==
    \E mallocOk \in BOOLEAN :
        /\ op = "sendOut"
        /\ loop(0, out[1].bytes, mallocOk)

NextCodec == CodecSend \/ CodecLoop

SpecCodec == Init /\ [][NextCodec]_vars

---------------------------------------------------------------------------
(* Claims                                                                  *)

\* A loop() step that reads exactly the bytes the preceding sendOut wrote,
\* starting in SYNC.
LoopReadsSent ==
    /\ op = "sendOut" /\ op' = "loop"
    /\ arg'.bytes = out[1].bytes
    /\ linkState = "SYNC"

\* What such a step must dispatch: one FORWARD frame with the topic and the
\* message sendOut was given.
SentDispatched ==
    disp' = <<[cmd |-> MQTT, topic |-> arg.topic, msg |-> arg.msg]>>

---------------------------------------------------------------------------
(* The heartbeat specification: the peer's only PING arrives at uptime 0   *)

HeartbeatLoop ==
    \E dt \in 0..1, in \in LinkInputs :
        /\ now + dt <= MaxTime
        /\ in[1] = PeerPing(PeerB) => now + dt = 0
        /\ loop(dt, in[1], in[2])

NextHeartbeat == HeartbeatLoop

SpecHeartbeat == Init /\ [][NextHeartbeat]_vars

---------------------------------------------------------------------------
(* Claims on the outbound path, checked under Spec                         *)

\* The topic of the last subsMsg call matches an entry of outgoingBlockList.
TopicBlockedOut ==
    \E i \in 1..Len(outgoingBlockList) : mqttmatch(arg.topic, outgoingBlockList[i])

\* C2: a bus message whose originator is the peer's current name makes
\* subsMsg write no frame.
C2_LoopPrevention ==
    (op = "subsMsg" /\ arg.originator = remoteName) => out = <<>>

\* C2 witness: a message from peer "B", on a topic no list entry blocks, dropped.
C2_Witness ==
    /\ op = "subsMsg" /\ remoteName = PeerB /\ arg.originator = PeerB
    /\ ~TopicBlockedOut /\ out = <<>>

\* C3: every message a local task published, on a topic no outgoing block
\* entry matches, makes subsMsg write exactly one FORWARD frame, whatever the
\* session state.
C3_ForwardsAllUnblocked ==
    (op = "subsMsg" /\ arg.originator \in {LocalTask, NoOriginator} /\ ~TopicBlockedOut)
        => (Len(out) = 1 /\ out[1].cmd = MQTT)

\* C4: a bus message whose topic matches an entry of outgoingBlockList makes
\* subsMsg write no frame.
C4_OutgoingBlocked == (op = "subsMsg" /\ TopicBlockedOut) => out = <<>>

\* C4 witness: a local task's message dropped because the second of two list
\* entries matches it.
C4_Witness ==
    /\ op = "subsMsg" /\ arg.originator = LocalTask /\ remoteName = PeerB
    /\ Len(outgoingBlockList) = 2
    /\ ~mqttmatch(arg.topic, outgoingBlockList[1])
    /\ mqttmatch(arg.topic, outgoingBlockList[2])
    /\ out = <<>>

---------------------------------------------------------------------------
(* Claims on the inbound path                                              *)

\* The last loop() dispatched exactly one frame, of command cmd.
DispatchedOne(cmd) == op = "loop" /\ Len(disp) = 1 /\ disp[1].cmd = cmd

\* The topic of the frame dispatched matches an entry of incomingBlockList.
TopicBlockedIn ==
    \E i \in 1..Len(incomingBlockList) : mqttmatch(disp[1].topic, incomingBlockList[i])

ConnectedEvent(peer) == Publish(LinkTopic(peer), Connected, name)
DisconnectedEvent(peer) == Publish(LinkTopic(peer), Disconnected, name)

\* The publish calls of the last operation that are not link events.
Republished == {i \in 1..Len(pubs) : pubs[i].msg \notin {Connected, Disconnected}}

\* C5: a valid FORWARD frame whose topic matches an entry of incomingBlockList
\* is not republished, and is consumed all the same: the receiver is back in
\* SYNC, the buffer is freed and lastMsg is the current uptime.
C5_IncomingBlocked ==
    (DispatchedOne(MQTT) /\ TopicBlockedIn)
        => (Republished = {} /\ linkState = "SYNC" /\ ~allocated /\ lastMsg = now)

\* C5 witness: "A/t" blocked by the entry "A/#", with lastMsg moved forward.
C5_Witness ==
    /\ DispatchedOne(MQTT) /\ TopicBlockedIn
    /\ disp[1].topic = name \o <<Slash>> \o TopicT
    /\ incomingBlockList = <<name \o <<Slash, Hash>>>>
    /\ pubs = <<>> /\ pre.lastMsg < lastMsg

\* C6: a PING dispatched while linkConnected is false sets it and publishes
\* exactly the connected event for the name the PING carries; a PING
\* dispatched while connected publishes nothing.
C6_ConnectOnPing ==
    DispatchedOne(MUPING) =>
        /\ linkConnected
        /\ remoteName = disp[1].msg
        /\ pubs = IF pre.linkConnected THEN <<>> ELSE <<ConnectedEvent(disp[1].msg)>>

\* C6 witness: the first PING of peer "B" connects the session.
C6_Witness ==
    /\ DispatchedOne(MUPING) /\ ~pre.linkConnected /\ linkConnected
    /\ pubs = <<ConnectedEvent(PeerB)>>

\* C7 as stated: a valid FORWARD frame dispatched while linkConnected is false
\* sets linkConnected.
C7_ForwardConnects ==
    (DispatchedOne(MQTT) /\ ~pre.linkConnected) => linkConnected

\* C7 amended: only a PING connects; a FORWARD frame dispatched while
\* linkConnected is false leaves it false and publishes no link event.
C7_OnlyPingConnects ==
    /\ (DispatchedOne(MQTT) /\ ~pre.linkConnected)
          => (~linkConnected /\ \A i \in 1..Len(pubs) : pubs[i].msg # Connected)
    /\ (DispatchedOne(MUPING) /\ ~pre.linkConnected) => linkConnected

\* C7 witness: a FORWARD frame dispatched in a session that stays disconnected.
C7_Witness ==
    /\ DispatchedOne(MQTT) /\ ~pre.linkConnected /\ ~linkConnected
    /\ lastMsg = now /\ now > 0

---------------------------------------------------------------------------
(* Claims on the timers                                                    *)

\* The last loop() found no byte in the serial port.
SilentLoop == op = "loop" /\ arg.bytes = <<>>

\* C8: connected, in SYNC and silent for longer than pingReceiveTimeout: the
\* tick disconnects and publishes the disconnected event once; a silent tick of
\* a disconnected session publishes nothing.
C8_IdleSilence ==
    /\ (SilentLoop /\ pre.linkConnected /\ pre.linkState = "SYNC"
            /\ now - pre.lastRead > pingReceiveTimeout)
          => (~linkConnected /\ pubs = <<DisconnectedEvent(remoteName)>>)
    /\ (SilentLoop /\ ~pre.linkConnected) => (~linkConnected /\ pubs = <<>>)

\* C8 witness: the tick that ends eleven silent seconds.
C8_Witness ==
    /\ SilentLoop /\ pre.linkConnected /\ pre.linkState = "SYNC"
    /\ now - pre.lastRead > pingReceiveTimeout
    /\ ~linkConnected /\ Len(pubs) = 1

\* C9 as stated, in runs where the peer's only PING arrived at uptime 0: after
\* a tick later than pingReceiveTimeout that leaves the receiver idle in SYNC,
\* the session that PING connected is disconnected, whatever else was received.
C9_NoPingDisconnects ==
    (op = "loop" /\ remoteName = PeerB /\ now > pingReceiveTimeout /\ linkState = "SYNC")
        => ~linkConnected

\* C9 amended: a tick of a connected session that ends in SYNC with no frame
\* accepted for longer than pingReceiveTimeout disconnects and publishes the
\* disconnected event once; a frame accepted within that time, PING or not,
\* keeps the session connected.
C9_NoFrameDisconnects ==
    /\ (op = "loop" /\ pre.linkConnected /\ linkState = "SYNC"
            /\ now - lastMsg > pingReceiveTimeout)
          => (~linkConnected /\ pubs = <<DisconnectedEvent(remoteName)>>)
    /\ (op = "loop" /\ pre.linkConnected /\ pre.linkState = "SYNC"
            /\ now - lastMsg <= pingReceiveTimeout)
          => (linkConnected /\ Republished = 1..Len(pubs))

\* C9 witness: a connected session disconnected by a tick that found the last
\* accepted frame more than pingReceiveTimeout old.
C9_Witness ==
    /\ op = "loop" /\ pre.linkConnected /\ ~linkConnected
    /\ linkState = "SYNC" /\ now - lastMsg > pingReceiveTimeout
    /\ pubs = <<DisconnectedEvent(PeerB)>>

\* The read-timeout and the ping-receive-timeout conditions of the last tick.
\* A tick that read a byte has lastRead = now, so the first needs a silent tick.
ReadTimeoutHeld ==
    SilentLoop /\ pre.linkState # "SYNC" /\ now - pre.lastRead > readTimeout
PingTimeoutHeld == linkState = "SYNC" /\ now - lastMsg > pingReceiveTimeout

\* C10: linkConnected rises only in a loop() that dispatched a PING or FORWARD
\* frame, and falls only in a loop() in which one of the two timeout
\* conditions held.
C10_ConnectedChanges ==
    /\ (~pre.linkConnected /\ linkConnected)
          => (op = "loop" /\ \E i \in 1..Len(disp) : disp[i].cmd \in {MUPING, MQTT})
    /\ (pre.linkConnected /\ ~linkConnected)
          => (op = "loop" /\ (ReadTimeoutHeld \/ PingTimeoutHeld))

\* C10 witness: a session disconnected by the read timeout, in mid-frame.
C10_Witness ==
    /\ pre.linkConnected /\ ~linkConnected /\ ReadTimeoutHeld /\ ~PingTimeoutHeld

---------------------------------------------------------------------------
(* The wire specification: a receiver in SYNC fed one byte sequence         *)

\* The frames the peer writes, as the receiver dispatches them.
PingB == [cmd |-> MUPING, topic |-> Ltoa(PeerUptime, LtoaRadix), msg |-> PeerB]
FwdB == [cmd |-> MQTT, topic |-> name \o <<Slash>> \o TopicT, msg |-> MsgM]
WireFrames == {PingB, FwdB}

FrameBytes(f) == SendOutBytes(f.topic, f.msg, f.cmd, PeerNum)

\* A FORWARD frame whose topic holds the header of a second frame: soh, ver,
\* num, cmd, hLen = 1, lLen = 1, stx, pad.  The second frame's payload is the
\* rest of the topic, the NUL, the message and its NUL (256 + 1 bytes), and its
\* footer is the footer of the frame around it.
NestHeader == <<SOH, VER, PeerNum, MQTT, 1, 1, STX, 65>>
NestMsg == [i \in 1..(256 + 1 - 2 - Len(TopicT)) |-> 109]
\* The first byte of the topic makes the checksums of the two frames equal.
NestLead ==
    LET th == SendHeader(<<65>> \o NestHeader \o TopicT, NestMsg, MQTT, PeerNum)
    IN Xor(crc(SubSeq(th, 2, HeaderSize), 0), SOH)
NestTopic == <<NestLead>> \o NestHeader \o TopicT
NestFrame == SendOutBytes(NestTopic, NestMsg, MQTT, PeerNum)

\* A header that declares a payload of length 0, and the footer that fits it.
ZeroHeader == <<SOH, VER, PeerNum, MQTT, 0, 0, STX, 0>>
ZeroFrame ==
    ZeroHeader \o <<ETX, 0, crc(<<ETX, 0>>, crc(SubSeq(ZeroHeader, 2, HeaderSize), 0)), EOT>>

\* Values a byte of a frame is replaced by.
CorruptValues == {NUL, SOH, STX, ETX, EOT, 65}

\* Every substitution of one byte of a frame by a different value.
Corruptions(bytes, positions) ==
    UNION {{Corrupt(bytes, i, v) : v \in CorruptValues \ {bytes[i]}} : i \in positions}

\* The single-byte corruptions fed to the receiver: every position of the
\* peer's frames, and the markers of the header of NestFrame.
CorruptedFrames ==
    UNION {Corruptions(FrameBytes(f), 1..Len(FrameBytes(f))) : f \in WireFrames}
        \cup Corruptions(NestFrame, {1, 2, HeaderSize - 1})

\* The peer's frames behind one extra byte with the value of the start marker.
SohFrames == {<<SOH>> \o FrameBytes(f) : f \in WireFrames}

\* A header with the right markers that declares a payload of 1024 bytes, the
\* smallest length the receiver refuses.
OversizeHeader ==
    <<SOH, VER, PeerNum, MQTT, MaxMsgLen \div 256, MaxMsgLen % 256, STX, 0>>

\* The header of the peer's FORWARD frame.
FwdHeader == SubSeq(FrameBytes(FwdB), 1, HeaderSize)

\* A rejected header with a frame of the peer right behind it.
OversizeThenFrame == {OversizeHeader \o FrameBytes(f) : f \in WireFrames}

\* A frame with the markers and the checksum right around any payload bytes.
RawFrame(cmd, payload) ==
    LET th == <<SOH, VER, PeerNum, cmd, Len(payload) \div 256, Len(payload) % 256, STX, 0>>
    IN th \o payload
          \o <<ETX, 0, crc(<<ETX, 0>>, crc(payload, crc(SubSeq(th, 2, HeaderSize), 0))), EOT>>

\* A frame whose payload holds no NUL: "AA".
NoNulFrame == RawFrame(MQTT, <<65, 65>>)

\* A FORWARD frame of the peer with the value of the start marker in its topic
\* and as its message.
SohFwd == [cmd |-> MQTT, topic |-> name \o <<Slash, SOH>>, msg |-> <<SOH>>]

\* SohFwd with the version byte or the STX byte of its header replaced.
SohFwdBadHeader == Corruptions(FrameBytes(SohFwd), {2, HeaderSize - 1})

\* What the port holds when loop() finds the receiver in SYNC, and what malloc
\* answers; malloc(0) may return a pointer or NULL.
WireInputs ==
    {<<bytes, TRUE>> : bytes \in {FrameBytes(f) : f \in WireFrames} \cup {NestFrame}
                                    \cup SohFrames \cup CorruptedFrames
                                    \cup {ZeroHeader, ZeroFrame}
                                    \cup {OversizeHeader} \cup OversizeThenFrame
                                    \cup {NoNulFrame, FrameBytes(SohFwd)}
                                    \cup SohFwdBadHeader}
        \cup {<<ZeroHeader, FALSE>>, <<FwdHeader, FALSE>>}

WireLoop ==
    \E in \in WireInputs :
        /\ linkState = "SYNC"
        /\ loop(0, in[1], in[2])

NextWire == WireLoop

SpecWire == Init /\ [][NextWire]_vars

\* The last loop() found the receiver in SYNC.
FromSync == op = "loop" /\ pre.linkState = "SYNC"

\* C11: one extra byte with the value of SOH in front of a valid frame is
\* ignored: the receiver in SYNC dispatches exactly the frame it dispatches
\* without the extra byte.
C11_Resynchronizes ==
    \A f \in WireFrames :
        (FromSync /\ arg.bytes = <<SOH>> \o FrameBytes(f)) => disp = <<f>>

\* C13: a receiver in SYNC fed a valid frame with one byte replaced by a
\* different value dispatches no frame.
C13_CorruptionRejected ==
    (FromSync /\ arg.bytes \in CorruptedFrames) => disp = <<>>

\* The frames the corrupted byte sequences were made from.
SentFrames == WireFrames \cup {[cmd |-> MQTT, topic |-> NestTopic, msg |-> NestMsg]}

\* C13 amended: a receiver in SYNC fed a valid frame with one byte replaced by
\* a different value never dispatches the frame that was sent, and dispatches
\* nothing at all when the payload is shorter than 256 bytes; a longer payload
\* can hold a frame of its own that is dispatched.
C13_SentFrameRejected ==
    (FromSync /\ arg.bytes \in CorruptedFrames)
        => /\ \A i \in 1..Len(disp) : disp[i] \notin SentFrames
           /\ Len(arg.bytes) - HeaderSize - FooterSize < 256 => disp = <<>>

\* C13 witness: the FORWARD frame with a payload byte replaced, read to its
\* last byte and dropped at the checksum.
C13_Witness ==
    /\ FromSync /\ arg.bytes = Corrupt(FrameBytes(FwdB), HeaderSize + 3, 65)
    /\ disp = <<>> /\ linkState = "SYNC" /\ ~allocated /\ lastRead = now

\* C20: a header with valid version and STX that declares payload length 0
\* takes the receiver straight to footer assembly: it is never in MSG with a
\* declared length of 0, and no received byte is stored as payload.
C20_ZeroLengthToFooter ==
    (op = "loop" /\ arg.bytes \in {ZeroHeader, ZeroFrame} /\ arg.mallocOk)
        => (linkState # "MSG" /\ ~oob)

---------------------------------------------------------------------------
(* The partial-delivery specification: one frame arrives in chunks          *)

PartialMaxTime == 1

\* The frames that arrive in chunks: the peer's PING and FORWARD frames, and
\* a FORWARD frame with start-marker values in its payload.
PartialFrames == WireFrames \cup {SohFwd}

\* The bytes of the frame in assembly that the receiver holds.
AssembledBytes == hd \o msgBuf.data \o fo

\* The port holds the next k bytes of a frame of the peer whose first bytes the
\* receiver has assembled (none of them when it is in SYNC).
PartialLoop ==
    \E f \in PartialFrames, dt \in 0..1 :
        \E k \in 1..(Len(FrameBytes(f)) - Len(AssembledBytes)) :
            /\ AssembledBytes = SubSeq(FrameBytes(f), 1, Len(AssembledBytes))
            /\ now + dt <= PartialMaxTime
            /\ loop(dt, SubSeq(FrameBytes(f), Len(AssembledBytes) + 1,
                               Len(AssembledBytes) + k), TRUE)

NextPartial == PartialLoop

SpecPartial == Init /\ [][NextPartial]_vars

\* The session with the receiver in SYNC and no frame in assembly.
Fresh == ToSync(FreeBuf(Session))

\* The session after the step, with what the step published and dispatched.
SessionAfter == [Session' EXCEPT !.pubs = pubs', !.disp = disp', !.oob = oob']

\* C12: a loop() that reads the next chunk of a frame leaves the receiver in
\* the state, and dispatches and publishes what, a single loop() would that
\* reads all bytes of the frame up to the end of this chunk in one invocation.
C12_PartialDelivery ==
    [][op' = "loop" =>
          SessionAfter = Timers(RecvAll(Fresh, AssembledBytes \o arg'.bytes, now', TRUE),
                                now')]_vars

\* C12 witness: the FORWARD frame completed by a chunk of one byte, its last,
\* and republished.
C12_Witness ==
    /\ op = "loop" /\ Len(arg.bytes) = 1 /\ pre.linkState = "CRC"
    /\ disp = <<FwdB>> /\ Len(pubs) = 1 /\ linkState = "SYNC" /\ ~allocated

---------------------------------------------------------------------------
(* Claims on the two nodes as one system, checked under Spec                *)

\* This node has learned the name of its peer.
PeerKnown == remoteName \in {PeerB, PeerC}

\* The last subsMsg call delivered a local task's message on topic "t", which
\* begins with neither node's name and matches no outgoing block entry.
LocalMessageOut ==
    /\ op = "subsMsg" /\ arg.originator \in {LocalTask, NoOriginator}
    /\ arg.topic = TopicT /\ ~TopicBlockedOut

\* The last loop() dispatched the frame the peer writes for its local message
\* on topic "t", and no incoming block entry matches the wire topic.
LocalMessageIn ==
    /\ DispatchedOne(MQTT) /\ disp[1].topic = WireTopicTo(name, TopicT)
    /\ ~TopicBlockedIn

---------------------------------------------------------------------------
(* Claims on the block-list calls, checked under Spec                       *)

Elems(list) == {list[i] : i \in 1..Len(list)}

NotEqual(p, e) == e # p

\* The entries of list other than p, in order.
Without(list, p) == SelectSeq(list, LAMBDA e : NotEqual(p, e))

\* The list the last block-list call worked on, before and after the call.
ListBefore ==
    IF op \in {"outgoingBlockSet", "outgoingBlockRemove"}
    THEN pre.outgoingBlockList ELSE pre.incomingBlockList
ListAfter ==
    IF op \in {"outgoingBlockSet", "outgoingBlockRemove"}
    THEN outgoingBlockList ELSE incomingBlockList

DuplicateAdd ==
    op \in {"outgoingBlockSet", "incomingBlockSet"} /\ arg.topic \in Elems(ListBefore)

\* C16 as stated: adding a pattern that is already in the list reports success
\* and leaves the list unchanged.
C16_DuplicateAddSucceeds == DuplicateAdd => (ret /\ ListAfter = ListBefore)

\* C16 amended: adding a pattern that is already in the list returns false
\* and leaves the list unchanged.
C16_DuplicateAddRefused == DuplicateAdd => (~ret /\ ListAfter = ListBefore)

\* C16 witness: the second of two entries added again.
C16_Witness ==
    /\ DuplicateAdd /\ Len(ListBefore) = 2 /\ ListBefore[2] = arg.topic
    /\ ~ret /\ ListAfter = ListBefore

\* C17: Remove(p) returns true exactly when p is in the list; a successful
\* Remove leaves no entry equal to p and all other entries in place, a failed
\* one leaves the list unchanged; and a bus message (not the peer's) on a topic
\* that no remaining entry matches is forwarded.
C17_Removal ==
    /\ op \in {"outgoingBlockRemove", "incomingBlockRemove"}
          => /\ ret = (arg.topic \in Elems(ListBefore))
             /\ arg.topic \notin Elems(ListAfter)
             /\ ListAfter = Without(ListBefore, arg.topic)
             /\ ~ret => ListAfter = ListBefore
    /\ (op = "subsMsg" /\ arg.originator # remoteName /\ ~TopicBlockedOut)
          => Len(out) = 1

\* C17 witness: the first of two entries removed, the second left in place.
C17_Witness ==
    /\ op = "outgoingBlockRemove" /\ ret
    /\ Len(ListBefore) = 2 /\ ListBefore[1] = arg.topic
    /\ ListAfter = <<ListBefore[2]>>

---------------------------------------------------------------------------
(* The bridging scenario: "sensor/temp" = "21.5"                            *)

\* "sensor/temp" and "21.5"
SensorTemp == <<115, 101, 110, 115, 111, 114, Slash, 116, 101, 109, 112>>
Msg215 == <<50, 49, 46, 53>>

\* A local task of this node publishes the reading.
ScenarioBus ==
    \E originator \in {LocalTask, NoOriginator} :
        /\ blockNum < MaxBlockNum
        /\ subsMsg(SensorTemp, Msg215, originator)

\* The port holds nothing, the peer's PING, or the frame the peer writes when
\* a local task of its own publishes the reading.
ScenarioLoop ==
    \E dt \in 0..1,
       bytes \in {<<>>, PeerPing(PeerB), PeerForward(WireTopicTo(name, SensorTemp), Msg215)} :
        /\ now + dt <= MaxTime
        /\ loop(dt, bytes, TRUE)

NextScenario == ScenarioBus \/ ScenarioLoop

SpecScenario == Init /\ [][NextScenario]_vars

\* The last subsMsg call forwarded the reading.
ReadingForwarded ==
    op = "subsMsg" /\ arg.topic = SensorTemp /\ arg.msg = Msg215 /\ Len(out) = 1

\* The last loop() dispatched the frame the peer writes for the reading.
ReadingReceived ==
    /\ DispatchedOne(MQTT) /\ disp[1].msg = Msg215
    /\ disp[1].topic = name \o <<Slash>> \o SensorTemp

\* C15 as stated: node "A" writes the reading with the wire topic
\* "A/sensor/temp", prefixed with its own name.
C15_SenderPrefix ==
    ReadingForwarded => out[1].topic = name \o <<Slash>> \o SensorTemp

\* C15 amended: the wire topic is the reading's topic prefixed with the name
\* of the peer as learned from its last PING ("B/sensor/temp"; "/sensor/temp"
\* before any PING), the message is "21.5"; the node that receives the frame
\* prefixed with its own name republishes it as "sensor/temp" with the
\* sender's name, as far as it has learned it, as originator.
C15_PeerPrefix ==
    /\ ReadingForwarded
          => /\ out[1].cmd = MQTT /\ out[1].msg = Msg215
             /\ out[1].topic = remoteName \o <<Slash>> \o SensorTemp
    /\ ReadingReceived => pubs = <<Publish(SensorTemp, Msg215, remoteName)>>

\* C15 witness: the reading written as "B/sensor/temp" once peer "B" is known.
C15_Witness ==
    /\ ReadingForwarded /\ remoteName = PeerB
    /\ out[1].topic = PeerB \o <<Slash>> \o SensorTemp

---------------------------------------------------------------------------
(* Net (net.h): the station connection and its restart policy               *)

MaxRetries == 3
MaxTimeouts == 5

\* The fields Net::loop works on, with the two history fields.
NetFields ==
    [mode |-> mode, curState |-> curState, oldState |-> oldState,
     reconnectMaxRetries |-> reconnectMaxRetries,
     bRebootOnContinuedFailure |-> bRebootOnContinuedFailure,
     bOnceConnected |-> bOnceConnected, initialCounter |-> initialCounter,
     deathCounter |-> deathCounter, restarted |-> restarted, timeouts |-> timeouts]

\* ESP.restart(): the device restarts, the statements after the call do not run.
Restart(n) == [n EXCEPT !.restarted = TRUE]

\* ConnectTimedOut that gives a station never connected one more retry.
ConnectTimedOutLenient(n0) ==
    LET n == [n0 EXCEPT !.timeouts = @ + 1] IN
    IF n.bOnceConnected
    THEN LET n1 == IF n.bRebootOnContinuedFailure
                   THEN [n EXCEPT !.deathCounter = @ - 1] ELSE n
         IN IF n1.deathCounter = 0 /\ n1.bRebootOnContinuedFailure THEN Restart(n1) ELSE n1
    ELSE IF n.initialCounter >= 0
         THEN IF n.bRebootOnContinuedFailure
              THEN [n EXCEPT !.initialCounter = @ - 1, !.curState = "CONNECTINGAP"]
              ELSE [n EXCEPT !.curState = "CONNECTINGAP"]
         ELSE LET n1 == [n EXCEPT !.curState = "NOTCONFIGURED"]
              IN IF n1.bRebootOnContinuedFailure THEN Restart(n1) ELSE n1

\* case CONNECTINGAP, connectTimeout.test() true (lines 275-307).
ConnectTimedOut(n0) ==
    LET n == [n0 EXCEPT !.timeouts = @ + 1] IN
    IF n.bOnceConnected
    THEN LET n1 == IF n.bRebootOnContinuedFailure
                   THEN [n EXCEPT !.deathCounter = @ - 1] ELSE n
         IN IF n1.deathCounter = 0 /\ n1.bRebootOnContinuedFailure THEN Restart(n1) ELSE n1
    ELSE IF n.initialCounter > 0
         THEN IF n.bRebootOnContinuedFailure
              THEN [n EXCEPT !.initialCounter = @ - 1, !.curState = "CONNECTINGAP"]
              ELSE [n EXCEPT !.curState = "CONNECTINGAP"]
         ELSE LET n1 == [n EXCEPT !.curState = "NOTCONFIGURED"]
              IN IF n1.bRebootOnContinuedFailure THEN Restart(n1) ELSE n1

\* The end of Net::loop: a changed state is published and remembered.
StateTransition(n) ==
    IF n.restarted THEN n ELSE [n EXCEPT !.oldState = n.curState]

\* Net::loop() with WiFi.status() == WL_CONNECTED as wlConnected, and with what
\* connectTimeout.test() and connectionMonitor.beat() answer.  No station is
\* joined to the soft AP and no scan is running.
NetLoopBody(n, wlConnected, expired, beat) ==
    IF n.mode = "OFF" THEN n
    ELSE IF n.curState = "CONNECTINGAP"
    THEN IF wlConnected THEN [n EXCEPT !.curState = "CONNECTED"]
         ELSE IF expired THEN StateTransition(ConnectTimedOut(n))
         ELSE StateTransition(n)
    ELSE IF n.curState = "CONNECTED"
    THEN LET n1 == [n EXCEPT !.bOnceConnected = TRUE,
                             !.deathCounter = n.reconnectMaxRetries,
                             !.timeouts = 0]
         IN IF beat /\ ~wlConnected
            THEN StateTransition([n1 EXCEPT !.curState = "CONNECTINGAP"])
            ELSE StateTransition(n1)
    ELSE StateTransition(n)

\* Net::begin(pScheduler, opmode, restartOnMultipleFailures): startServices with
\* the mode, the retry count and the restart flag the configuration yields.
NetBegin(m, retries, reboot, started) ==
    /\ netOp = "Net"
    /\ mode' = m
    /\ netOp' = "begin"
    /\ IF m = "STATION"
       THEN /\ reconnectMaxRetries' = retries
            /\ bRebootOnContinuedFailure' = reboot
            /\ IF started
               THEN /\ deathCounter' = retries
                    /\ initialCounter' = retries
                    /\ bOnceConnected' = FALSE
                    /\ curState' = "CONNECTINGAP"
               ELSE UNCHANGED <<deathCounter, initialCounter, bOnceConnected, curState>>
       ELSE /\ curState' = IF m = "AP" /\ started THEN "SERVING" ELSE curState
            /\ UNCHANGED <<reconnectMaxRetries, bRebootOnContinuedFailure, deathCounter,
                           initialCounter, bOnceConnected>>
    /\ UNCHANGED <<oldState, restarted, timeouts, serialVars, otaVars>>

NetLoop(wlConnected, expired, beat) ==
    \E n \in {NetLoopBody(NetFields, wlConnected, expired, beat)} :
        /\ netOp # "Net" /\ ~restarted
        /\ mode' = n.mode
        /\ curState' = n.curState
        /\ oldState' = n.oldState
        /\ reconnectMaxRetries' = n.reconnectMaxRetries
        /\ bRebootOnContinuedFailure' = n.bRebootOnContinuedFailure
        /\ bOnceConnected' = n.bOnceConnected
        /\ initialCounter' = n.initialCounter
        /\ deathCounter' = n.deathCounter
        /\ restarted' = n.restarted
        /\ timeouts' = n.timeouts
        /\ netOp' = "loop"
        /\ UNCHANGED <<serialVars, otaVars>>

\* Net::begin is called once, with a station, an access point or no network
\* configured.
NetStart ==
    \E m \in {"OFF", "AP", "STATION"}, retries \in 1..MaxRetries,
       reboot \in BOOLEAN, started \in BOOLEAN :
        NetBegin(m, retries, reboot, started)

\* The scheduler runs Net::loop.  The count of timeouts in a row is capped.
NetTick ==
    \E wlConnected \in BOOLEAN, expired \in BOOLEAN, beat \in BOOLEAN :
        /\ (curState = "CONNECTINGAP" /\ ~wlConnected /\ expired) => timeouts < MaxTimeouts
        /\ NetLoop(wlConnected, expired, beat)

---------------------------------------------------------------------------
(* Ota (ota.h): the update callbacks                                        *)

\* The task id Scheduler::add returned to Ota::begin.
OtaTask == "ota"

\* Ota::subsMsg(topic, msg, originator).  kind: the message is no JSON
\* ("nojson"), the topic is not net/network ("other"), or the topic is
\* net/network and the state is "connected" or anything else ("down").
OtaSubsMsg(kind) ==
    /\ otaOp' = "subsMsg"
    /\ IF kind = "connected"
       THEN IF ~bNetUp
            THEN /\ bNetUp' = TRUE
                 /\ bCheckOTA' = TRUE
            ELSE UNCHANGED <<bNetUp, bCheckOTA>>
       ELSE IF kind = "down"
       THEN /\ bNetUp' = FALSE
            /\ bCheckOTA' = FALSE
       ELSE UNCHANGED <<bNetUp, bCheckOTA>>
    /\ UNCHANGED <<bOTAUpdateActive, singleTask, updating, serialVars, netVars>>

\* Ota::loop(): ArduinoOTA.handle() runs one of the callbacks OTAsetup
\* registered, or none.
OtaLoop(event) ==
    /\ event # "none" => bCheckOTA
    /\ event = "onStart" => ~updating
    /\ event \in {"onEnd", "onProgress"} => updating
    /\ otaOp' = event
    /\ bOTAUpdateActive' =
          IF event = "onStart" THEN TRUE
          ELSE IF event = "onEnd" THEN FALSE
          ELSE bOTAUpdateActive
    /\ singleTask' =
          IF event = "onStart" THEN OtaTask
          ELSE IF event = "onEnd" THEN NoTask
          ELSE singleTask
    /\ updating' =
          IF event = "onStart" THEN TRUE
          ELSE IF event \in {"onEnd", "onError"} THEN FALSE
          ELSE updating
    /\ UNCHANGED <<bNetUp, bCheckOTA, serialVars, netVars>>

OtaMessage == \E kind \in {"nojson", "other", "connected", "down"} : OtaSubsMsg(kind)

OtaTick == \E event \in {"none", "onStart", "onProgress", "onEnd", "onError"} : OtaLoop(event)

NextNet == NetStart \/ NetTick \/ OtaMessage \/ OtaTick

SpecNet == Init /\ [][NextNet]_vars

\* C18: in station mode with restart on failure, no more than
\* reconnectMaxRetries + 1 connect timeouts in a row happen: the device
\* restarts at timeout reconnectMaxRetries + 1 before a first connection and at
\* timeout reconnectMaxRetries after a connection was lost; without restart on
\* failure it never restarts and stays in CONNECTINGAP until it connects.
C18_RestartPolicy ==
    /\ restarted => bRebootOnContinuedFailure
    /\ (mode = "STATION" /\ bRebootOnContinuedFailure)
          => /\ timeouts <= reconnectMaxRetries + 1
             /\ (~bOnceConnected /\ timeouts = reconnectMaxRetries + 1) => restarted
             /\ (bOnceConnected /\ timeouts = reconnectMaxRetries) => restarted
             /\ restarted => timeouts >= reconnectMaxRetries
    /\ (mode = "STATION" /\ ~bRebootOnContinuedFailure /\ timeouts > 0)
          => (~restarted /\ curState \in {"CONNECTINGAP", "CONNECTED"})

\* C18 witness: the restart after a lost connection, at the last retry.
C18_Witness ==
    /\ restarted /\ bOnceConnected /\ reconnectMaxRetries = MaxRetries
    /\ timeouts = reconnectMaxRetries /\ deathCounter = 0

\* C19: after onStart the scheduler runs the Ota task alone; after an update
\* has finished, with onEnd or with onError, single-task mode is left and
\* bOTAUpdateActive is false.
C19_UpdateEndsSingleTask ==
    /\ otaOp = "onStart" => (singleTask = OtaTask /\ bOTAUpdateActive)
    /\ (otaOp \in {"onEnd", "onError"} /\ ~updating)
          => (singleTask = NoTask /\ ~bOTAUpdateActive)

---------------------------------------------------------------------------
(* Claims on rejected headers and bad frames, checked under SpecWire        *)

\* The last loop() found the receiver in SYNC and read one header that
\* declares 1024 payload bytes, or one header for which malloc returned NULL.
HeaderRejected ==
    /\ FromSync
    /\ \/ arg.bytes = OversizeHeader
       \/ ~arg.mallocOk /\ arg.bytes \in {FwdHeader, ZeroHeader}

\* No payload buffer is held.
NoBuffer == msgBuf.null /\ ~allocated /\ held = 0

\* C21: a completed header that declares a payload length outside the bound,
\* or for which malloc returns NULL, leaves the receiver in SYNC with no
\* buffer, nothing published or dispatched and linkConnected as it was; a valid
\* frame that follows, in the same loop() or in the next, is dispatched.
C21_RejectedHeader ==
    [][/\ HeaderRejected'
            => (linkState' = "SYNC" /\ NoBuffer' /\ pubs' = <<>> /\ disp' = <<>>
                  /\ linkConnected' = linkConnected)
       /\ \A f \in WireFrames :
            /\ (op' = "loop" /\ linkState = "SYNC"
                    /\ arg'.bytes = OversizeHeader \o FrameBytes(f))
                  => (disp' = <<f>> /\ linkState' = "SYNC" /\ NoBuffer')
            /\ (HeaderRejected /\ op' = "loop" /\ arg'.bytes = FrameBytes(f)
                    /\ arg'.mallocOk)
                  => (disp' = <<f>> /\ linkState' = "SYNC" /\ NoBuffer')]_vars

\* C21 witness: in a connected session, the oversize header refused and the
\* FORWARD frame behind it republished.
C21_Witness ==
    /\ FromSync /\ arg.bytes = OversizeHeader \o FrameBytes(FwdB)
    /\ pre.linkConnected /\ linkConnected
    /\ disp = <<FwdB>> /\ Len(pubs) = 1 /\ linkState = "SYNC" /\ NoBuffer

---------------------------------------------------------------------------
(* The sender specification: periodic pings and forwarded bus messages      *)

SendMaxTime == 13
SendMaxDt == 7
SendMaxNum == 3

\* A message that makes a payload of 1024 bytes under the wire topic "B/t",
\* and of 1023 bytes under "/t".
LongMsg == [i \in 1..(MaxMsgLen - 2 - Len(PeerB \o <<Slash>> \o TopicT)) |-> 109]

\* A local task publishes "m" or the long message on topic "t", or the peer's
\* "m" comes round on the bus.
SendBus ==
    \E in \in {<<MsgM, LocalTask>>, <<LongMsg, LocalTask>>, <<MsgM, PeerB>>} :
        /\ blockNum < SendMaxNum
        /\ subsMsg(TopicT, in[1], in[2])

\* The scheduler runs loop(), on time or late; the port holds nothing or the
\* peer's PING.
SendLoop ==
    \E dt \in 0..SendMaxDt, bytes \in {<<>>, PeerPing(PeerB)} :
        /\ now + dt <= SendMaxTime
        /\ loop(dt, bytes, TRUE)

NextSend == SendBus \/ SendLoop

SpecSend == Init /\ [][NextSend]_vars

\* The length the header of a written frame declares, and the number of
\* payload bytes written between header and footer.
DeclaredLen(bytes) == 256 * bytes[5] + bytes[6]
WrittenLen(bytes) == Len(bytes) - HeaderSize - FooterSize

\* C22: every frame written, by subsMsg or by ping, declares in its header
\* the number of payload bytes written, and that number is within the bound
\* the receiver accepts: a payload that is too long is not sent.
C22_SentFramesDecodable ==
    \A i \in 1..Len(out) :
        /\ DeclaredLen(out[i].bytes) = WrittenLen(out[i].bytes)
        /\ DeclaredLen(out[i].bytes) < MaxMsgLen

\* The payload of a written frame.
PayloadOf(bytes) == SubSeq(bytes, HeaderSize + 1, Len(bytes) - FooterSize)

\* The last operation wrote exactly one frame, a PING stamped with the current
\* uptime and this node's name, and moved lastPingSent to the current uptime.
OnePingWritten ==
    /\ Len(out) = 1 /\ out[1].cmd = MUPING /\ out[1].bytes[4] = MUPING
    /\ PayloadOf(out[1].bytes) = Ltoa(now, LtoaRadix) \o <<NUL>> \o name \o <<NUL>>
    /\ lastPingSent = now

\* C29: begin() writes one PING; a tick later than pingPeriod after the last
\* PING writes exactly one PING and sets lastPingSent to the current uptime,
\* with the session connected or not; every other tick writes no frame and
\* leaves lastPingSent alone; no other operation writes a PING.
C29_PeriodicPing ==
    /\ op = "begin" => OnePingWritten
    /\ (op = "loop" /\ now - pre.lastPingSent > pingPeriod) => OnePingWritten
    /\ (op = "loop" /\ now - pre.lastPingSent <= pingPeriod)
          => (out = <<>> /\ lastPingSent = pre.lastPingSent)
    /\ op \notin {"begin", "loop"}
          => (lastPingSent = pre.lastPingSent
                /\ \A i \in 1..Len(out) : out[i].cmd # MUPING)

\* C29 witness: the second periodic PING, written by a late tick of a session
\* that is not connected.
C29_Witness ==
    /\ op = "loop" /\ pre.lastPingSent > 0 /\ now - pre.lastPingSent > pingPeriod + 1
    /\ ~pre.linkConnected /\ ~linkConnected /\ OnePingWritten

---------------------------------------------------------------------------
(* Claims on the payload buffer and the read timeout, checked under SpecLink *)

\* C23: at most one payload buffer is held; allocated and msgBuf tell whether
\* one is; and none is held while the receiver is in SYNC: the buffer of a
\* frame is freed when the frame is dispatched, when its checksum or its
\* terminator is wrong, and when the read timeout ends it.
C23_BufferOwnership ==
    /\ held <= 1
    /\ allocated = (held = 1)
    /\ msgBuf.null = (held = 0)
    /\ linkState = "SYNC" => NoBuffer

\* C23 witness: a tick that found a buffer held, read the rest of the frame,
\* dispatched it and freed the buffer.
C23_Witness ==
    /\ op = "loop" /\ pre.allocated /\ pre.linkState = "MSG"
    /\ Len(disp) = 1 /\ linkState = "SYNC" /\ NoBuffer

\* C27: a tick that finds the receiver outside SYNC and the last byte read
\* more than readTimeout ago leaves the receiver in SYNC with no buffer and the
\* session disconnected; it publishes the disconnected event once if the
\* session was connected and nothing if it was not.
C27_ReadTimeout ==
    ReadTimeoutHeld
        => /\ linkState = "SYNC" /\ NoBuffer /\ ~linkConnected
           /\ pubs = IF pre.linkConnected
                     THEN <<DisconnectedEvent(remoteName)>> ELSE <<>>

\* C27 witness: a connected session with a payload buffer held, ended by the
\* read timeout.
C27_Witness ==
    /\ ReadTimeoutHeld /\ pre.linkConnected /\ pre.allocated
    /\ linkState = "SYNC" /\ NoBuffer /\ pubs = <<DisconnectedEvent(PeerB)>>

---------------------------------------------------------------------------
(* Claims on buffer bounds, checked under SpecWire                          *)

\* C24: whatever bytes arrive, the header cursor stays within the 8 bytes of
\* hd, the footer cursor within the 4 bytes of fo, every payload byte is stored
\* at an index below msgLen, and the two strlen calls of the dispatch step read
\* only indices below msgLen.
C24_BufferBounds ==
    /\ Len(hd) <= HeaderSize
    /\ Len(fo) <= FooterSize
    /\ ~oob

---------------------------------------------------------------------------
(* Claims on start-marker values inside a frame, checked under SpecPartial  *)

\* C25: a chunk with a byte equal to SOH in it, read while the receiver is in
\* HEADER, MSG or CRC, is appended to the frame in assembly and never starts a
\* new header: the receiver holds the bytes it held and the chunk, or has
\* dispatched exactly the frame those bytes make; the frame with SOH values in
\* its payload is dispatched with topic and message intact.
C25_NoInFrameResync ==
    [][/\ (op' = "loop" /\ linkState # "SYNC" /\ SOH \in Elems(arg'.bytes))
            => IF linkState' = "SYNC"
               THEN /\ Len(disp') = 1
                    /\ FrameBytes(disp'[1]) = AssembledBytes \o arg'.bytes
               ELSE /\ disp' = <<>>
                    /\ AssembledBytes' = AssembledBytes \o arg'.bytes
       /\ (op' = "loop" /\ AssembledBytes \o arg'.bytes = FrameBytes(SohFwd))
            => disp' = <<SohFwd>>]_vars

\* C25 witness: the rest of the payload, from its first SOH value on, and the
\* footer read in MSG, and the frame dispatched.
C25_Witness ==
    /\ op = "loop" /\ pre.linkState = "MSG" /\ arg.bytes[1] = SOH
    /\ disp = <<SohFwd>> /\ linkState = "SYNC"

---------------------------------------------------------------------------
(* Claims on bad frames, checked under SpecWire                             *)

\* Frames of the peer that fail at the footer: a wrong ETX or EOT, or a
\* checksum that does not fit because the block number, the command, the
\* padding, a payload byte or the checksum byte was changed.
BadFooterFrames ==
    UNION {Corruptions(FrameBytes(f),
                       {3, 4, HeaderSize} \cup ((HeaderSize + 1)..Len(FrameBytes(f))))
             : f \in WireFrames}

\* Frames with a wrong version byte or a wrong STX.
BadHeaderFrames ==
    UNION {Corruptions(FrameBytes(f), {2, HeaderSize - 1}) : f \in WireFrames}
        \cup SohFwdBadHeader \cup Corruptions(NestFrame, {2, HeaderSize - 1})

\* The last loop() dropped what it read: nothing dispatched or published, the
\* receiver in SYNC with no buffer, the session fields as they were.
Dropped ==
    /\ disp = <<>> /\ pubs = <<>> /\ linkState = "SYNC" /\ NoBuffer
    /\ linkConnected = pre.linkConnected /\ remoteName = pre.remoteName
    /\ lastMsg = pre.lastMsg

\* C26 as stated: a frame with a wrong version byte, STX, ETX, EOT or checksum
\* is never dispatched; after it the receiver is in SYNC, nothing is published
\* and linkConnected, remoteName and lastMsg are unchanged.
C26_SilentDrop ==
    (FromSync /\ arg.bytes \in BadFooterFrames \cup BadHeaderFrames) => Dropped

\* C26 amended: a frame with a wrong ETX, EOT or checksum is read to its last
\* byte and dropped.  A frame with a wrong version byte or STX is refused at
\* its eighth byte and is itself never dispatched; the receiver scans the rest
\* of it for a start marker, so the frame is dropped without a trace when the
\* rest holds no byte equal to SOH, and nothing is dispatched or published when
\* the payload is shorter than 256 bytes.
C26_BadFrameDropped ==
    /\ (FromSync /\ arg.bytes \in BadFooterFrames) => Dropped
    /\ (FromSync /\ arg.bytes \in BadHeaderFrames)
          => /\ \A i \in 1..Len(disp) : disp[i] \notin SentFrames \cup {SohFwd}
             /\ WrittenLen(arg.bytes) < 256
                   => (disp = <<>> /\ pubs = <<>> /\ linkConnected = pre.linkConnected
                         /\ remoteName = pre.remoteName /\ lastMsg = pre.lastMsg)
             /\ SOH \notin Elems(SubSeq(arg.bytes, HeaderSize + 1, Len(arg.bytes)))
                   => Dropped

\* C26 witness: the peer's PING with a wrong version byte, dropped by a
\* connected session.
C26_Witness ==
    /\ FromSync /\ arg.bytes = Corrupt(FrameBytes(PingB), 2, 65)
    /\ pre.linkConnected /\ remoteName = PeerB /\ Dropped

---------------------------------------------------------------------------
(* The name specification: frames that carry a name, and long silences     *)

NameDt == 6
NameMaxTime == 12

\* A frame of the peer with a command value past the two of LinkCmd, and its
\* PING under the name "C" with a wrong checksum.
PeerOther == SendOutBytes(Ltoa(PeerUptime, LtoaRadix), PeerC, MQTT + 1, PeerNum)
PeerPingBad == Corrupt(PeerPing(PeerC), HeaderSize + 3, 65)

\* loop() runs at once or after a silence longer than readTimeout; the port
\* holds nothing, the peer's PING under either name, its FORWARD frame whole or
\* the first bytes of it, or one of the two frames that carry a name and are
\* no valid PING.
NameLoop ==
    \E dt \in {0, NameDt},
       bytes \in {<<>>, PeerPing(PeerB), PeerPing(PeerC), FwdAT,
                  SubSeq(FwdAT, 1, HeaderSize + 1), PeerOther, PeerPingBad} :
        /\ now + dt <= NameMaxTime
        /\ loop(dt, bytes, TRUE)

NextName == NameLoop

SpecName == Init /\ [][NextName]_vars

---------------------------------------------------------------------------
(* The delivery specification: the messages loop() publishes come back to   *)
(* subsMsg through the scheduler's queue                                    *)

EchoDt == 6
EchoMaxTime == 14

\* The peer's PING when it carries this node's own name.
PeerPingSameName == PeerPing(name)

\* What one loop() finds in the port: nothing, a PING of the peer under one of
\* three names, its FORWARD frame, or that FORWARD frame followed by a PING.
EchoChunks ==
    { <<>>, PeerPing(PeerB), PeerPing(PeerC), PeerPingSameName, FwdAT,
      FwdAT \o PeerPing(PeerB), FwdAT \o PeerPing(PeerC) }

\* loop() runs again once the queue of published messages is drained.
EchoLoop ==
    \E dt \in {0, EchoDt}, bytes \in EchoChunks :
        /\ pubs = <<>>
        /\ now + dt <= EchoMaxTime
        /\ blockNum < MaxBlockNum + 1
        /\ loop(dt, bytes, TRUE)

\* A local task's message is delivered while the queue is empty.
EchoBus ==
    /\ pubs = <<>>
    /\ blockNum < MaxBlockNum + 1
    /\ subsMsg(TopicT, MsgM, LocalTask)

NextEcho ==
    \/ EchoLoop
    \/ EchoBus
    \/ deliver

SpecEcho == Init /\ [][NextEcho]_vars

---------------------------------------------------------------------------
(* The numbering specification: frames written until blockNum wraps         *)

\* A local task's message is forwarded, a peer's message is dropped; blockNum
\* is an uint8_t and needs no cap.
SeqBus ==
    \E originator \in {LocalTask, PeerB} : subsMsg(TopicT, MsgM, originator)

\* loop() with or without a PING of the peer in the port, at once or after a
\* silence that makes this node's own PING due.
SeqLoop ==
    \E dt \in {0, NameDt}, bytes \in {<<>>, PeerPing(PeerB)} :
        /\ now + dt <= NameMaxTime
        /\ loop(dt, bytes, TRUE)

NextSeq == SeqBus \/ SeqLoop

SpecSeq == Init /\ [][NextSeq]_vars

IsPing(d) == d.cmd = MUPING

\* The PING frames the last operation dispatched, in order.
PingsDispatched == SelectSeq(disp, IsPing)

\* C30: remoteName is empty after begin(); an operation that dispatches a
\* PING leaves in it the name the last PING dispatched carries, and every
\* other operation (a FORWARD frame or a frame with another command
\* dispatched, a frame rejected, a timeout, a bus message) leaves it as it was.
C30_PeerName ==
    /\ remoteName = <<>>
    /\ [][remoteName' = IF PingsDispatched' # <<>>
                        THEN PingsDispatched'[Len(PingsDispatched')].msg
                        ELSE remoteName]_vars

\* C30 witness: the peer known as "B", disconnected by a timeout, sends a
\* PING under the name "C".
C30_Witness ==
    /\ DispatchedOne(MUPING) /\ pre.remoteName = PeerB /\ ~pre.linkConnected
    /\ remoteName = PeerC /\ disp[1].msg = PeerC

---------------------------------------------------------------------------
(* The noise specification: after the PING at uptime 0, bytes but no frame  *)

NoiseMaxTime == 17

\* Bytes that make no frame: a letter, a start marker, and the seven bytes
\* that complete a header with a wrong version byte, with and without a start
\* marker behind them.
NoiseChunks ==
    { <<>>, <<65>>, <<SOH>>,
      <<65, 65, 65, 65, 65, 65, 65>>, <<65, 65, 65, 65, 65, 65, 65, SOH>> }

\* loop() runs dt seconds after the last tick.  The peer's PING arrives at
\* uptime 0 only; from then on the port holds noise or nothing.
NoiseTick(dt) ==
    \E bytes \in NoiseChunks \cup {PeerPing(PeerB)} :
        /\ now + dt <= NoiseMaxTime
        /\ bytes = PeerPing(PeerB) => (now + dt = 0 /\ linkState = "SYNC")
        /\ loop(dt, bytes, TRUE)

NoiseLoop == \E dt \in 0..1 : NoiseTick(dt)

NextNoise == NoiseLoop

\* One more second of uptime has passed at a tick, below the horizon.
SecondPasses == now < NoiseMaxTime /\ now' = now + 1

\* The scheduler keeps running loop() and the uptime keeps growing, up to the
\* horizon NoiseMaxTime.
SpecNoise == Init /\ [][NextNoise]_vars /\ WF_now(SecondPasses)

\* C28: a session connected by the PING at uptime 0 that receives no valid
\* frame afterwards becomes disconnected, whatever bytes keep arriving and
\* however they are split over the ticks.
C28_PingSilenceDisconnects == linkConnected ~> ~linkConnected

---------------------------------------------------------------------------
(* Claims on frames with an unknown command, checked under SpecName         *)

\* The last loop() found the receiver in SYNC and read the frame with right
\* markers and checksum whose command is neither PING nor FORWARD.
UnknownCommandRead == FromSync /\ arg.bytes = PeerOther

\* C31: a frame with right markers and checksum whose command value is
\* neither PING nor FORWARD is accepted and ignored: nothing is published,
\* linkConnected and remoteName are unchanged, the receiver is back in SYNC and
\* the payload buffer is freed.
C31_UnknownCommand ==
    UnknownCommandRead
        => /\ Len(disp) = 1 /\ disp[1].cmd \notin {MUPING, MQTT}
           /\ pubs = <<>>
           /\ linkConnected = pre.linkConnected /\ remoteName = pre.remoteName
           /\ linkState = "SYNC" /\ NoBuffer

\* C31 witness: the frame with command 2 and the name "C" in its payload, read
\* by a session connected to peer "B".
C31_Witness ==
    /\ UnknownCommandRead /\ pre.linkConnected /\ linkConnected
    /\ remoteName = PeerB /\ disp[1].msg = PeerC /\ pubs = <<>>

---------------------------------------------------------------------------
(* Claims on the outbound path, checked under Spec                          *)

\* The fields of the session that belong to the receiver and to the link.
SessionFields ==
    <<linkState, hd, msgLen, curMsg, msgBuf, allocated, fo, held,
      linkConnected, remoteName, lastMsg, lastRead,
      outgoingBlockList, incomingBlockList>>

\* C32: handling a bus message in subsMsg, sent or dropped, leaves the
\* receiver state, linkConnected, remoteName, lastMsg, lastRead and both block
\* lists as they were.
C32_OutboundNoSideEffect ==
    [][op' = "subsMsg" => UNCHANGED SessionFields]_vars

\* C32 witness: a bus message was written as a frame by a connected session
\* that has entries in both block lists.
C32_Witness ==
    /\ op = "subsMsg" /\ Len(out) = 1
    /\ linkConnected /\ remoteName = PeerB /\ now > 0
    /\ outgoingBlockList # <<>> /\ incomingBlockList # <<>>

\* s begins with p.
HasPrefix(s, p) == Len(s) >= Len(p) /\ SubSeq(s, 1, Len(p)) = p

\* "<peerName>/"
PeerPrefix == remoteName \o <<Slash>>

\* C33: the FORWARD frame written for a bus message carries the bus topic
\* unchanged when that topic begins with "<peerName>/", and "<peerName>/"
\* followed by the bus topic otherwise; the message is written unchanged.
C33_OutboundWireTopic ==
    (op = "subsMsg" /\ out # <<>>)
        => /\ Len(out) = 1 /\ out[1].cmd = MQTT
           /\ out[1].msg = arg.msg
           /\ out[1].topic = IF HasPrefix(arg.topic, PeerPrefix)
                             THEN arg.topic
                             ELSE PeerPrefix \o arg.topic
           /\ PayloadOf(out[1].bytes) = out[1].topic \o <<NUL>> \o arg.msg \o <<NUL>>

\* C33 witness: the bus topic "B/t", forwarded to the peer "B" as it is.
C33_Witness ==
    /\ op = "subsMsg" /\ Len(out) = 1 /\ remoteName = PeerB
    /\ arg.topic = PeerB \o <<Slash>> \o TopicT /\ out[1].topic = arg.topic

---------------------------------------------------------------------------
(* Claims on the inbound path, checked under Spec                           *)

\* s without its leading p, and s itself when it does not begin with p.
DropPrefix(s, p) == IF HasPrefix(s, p) THEN SubSeq(s, Len(p) + 1, Len(s)) ELSE s

\* A topic with a leading "<localName>/" removed and then a leading
\* "<peerName>/" removed.
BothStripped(topic) == DropPrefix(DropPrefix(topic, name \o <<Slash>>), PeerPrefix)

\* The last loop() dispatched one FORWARD frame whose topic no entry of
\* incomingBlockList matches.
ForwardAdmitted == DispatchedOne(MQTT) /\ ~TopicBlockedIn

\* C34: the topic of a dispatched FORWARD frame that is not blocked is
\* republished with a leading "<localName>/" removed if present and a leading
\* "<peerName>/" removed if present, and unchanged when it carries neither.
C34_PrefixStripping ==
    ForwardAdmitted
        => (Len(pubs) = 1 /\ pubs[1].topic = BothStripped(disp[1].topic))

\* C35 as stated: a dispatched FORWARD frame that is not blocked is published
\* exactly once, under "<peerName>/<strippedTopic>", with the received message
\* and the peer's name as originator, and lastMsg is updated.
C35_RepublishPrefixed ==
    ForwardAdmitted
        => /\ pubs = <<Publish(PeerPrefix \o BothStripped(disp[1].topic),
                               disp[1].msg, remoteName)>>
           /\ lastMsg = now

\* C35 amended: such a frame is published exactly once, under the topic the
\* two prefix tests of internalPub leave, which is not prefixed with the peer's
\* name again, with the received message and the peer's name as originator, and
\* lastMsg is updated.
C35_InboundRepublish ==
    ForwardAdmitted
        => /\ pubs = <<Publish(StripTopic(disp[1].topic, remoteName),
                               disp[1].msg, remoteName)>>
           /\ lastMsg = now

\* C35 witness: the frame with topic "A/t" from peer "B", published once under
\* "t" while an incoming block entry that does not match it is set.
C35_Witness ==
    /\ ForwardAdmitted /\ remoteName = PeerB /\ incomingBlockList # <<>>
    /\ disp[1].topic = name \o <<Slash>> \o TopicT
    /\ pubs = <<Publish(TopicT, MsgM, PeerB)>> /\ lastMsg = now /\ now > 0

---------------------------------------------------------------------------
(* Claims on the deferred delivery of published messages, checked under     *)
(* SpecEcho                                                                 *)

\* The scheduler has just handed subsMsg one of this node's own link events.
OwnEventDelivered ==
    /\ op = "deliver" /\ arg.originator = name
    /\ arg.msg \in {Connected, Disconnected}

\* C36 as stated: a bus message whose originator is this node's own name, a
\* link event of this node in particular, makes subsMsg write no frame.
C36_OwnNameDropped ==
    (op \in {"deliver", "subsMsg"} /\ arg.originator = name) => out = <<>>

\* C36 amended: subsMsg has no test on this node's own name; a link event of
\* this node is written to the peer as one FORWARD frame, topic prefixed with
\* the peer's name, unless the peer carries the same name as this node or an
\* outgoing block entry matches the topic.
C36_OwnEventsForwarded ==
    OwnEventDelivered
        => IF remoteName = name \/ TopicBlockedOut
           THEN out = <<>>
           ELSE /\ Len(out) = 1 /\ out[1].cmd = MQTT /\ out[1].msg = arg.msg
                /\ out[1].topic = PeerPrefix \o arg.topic

\* C36 witness: the disconnected event of the link to peer "B", written to
\* the peer after the ping-receive timeout.
C36_Witness ==
    /\ OwnEventDelivered /\ arg.msg = Disconnected /\ remoteName = PeerB
    /\ Len(out) = 1 /\ out[1].topic = PeerPrefix \o LinkTopic(PeerB)

\* The scheduler has just handed subsMsg a message this node republished from
\* the serial link.
RepublishedDelivered ==
    op = "deliver" /\ arg.msg \notin {Connected, Disconnected}

\* C40: a message this node republished from the serial link is never written
\* back to the serial link, whenever the scheduler delivers it to subsMsg:
\* also when it was received before the first PING, and when a PING changed
\* remoteName while it was queued.
C40_NoEcho == RepublishedDelivered => out = <<>>

---------------------------------------------------------------------------
(* Claim on the sequence numbers, checked under SpecSeq                     *)

\* The frames of one step carry the numbers that follow blockNum, in the
\* record and in the third byte written, and blockNum moves on by their count.
NumberedInOrder ==
    /\ \A i \in 1..Len(out') :
          /\ out'[i].num = (blockNum + i - 1) % 256
          /\ out'[i].bytes[3] = out'[i].num
    /\ blockNum' = (blockNum + Len(out')) % 256

\* C37: begin() writes frame number 0 and leaves blockNum = 1; every later
\* operation numbers the frames it writes, PING and FORWARD alike, from
\* blockNum on, modulo 256, and advances blockNum by the number of frames it
\* wrote: the k-th frame since start carries (k-1) mod 256.
C37_SequenceNumbers ==
    /\ op = "begin" => (Len(out) = 1 /\ out[1].bytes[3] = 0 /\ blockNum = 1)
    /\ [][NumberedInOrder]_vars

\* C37 witness: the 256th frame, a FORWARD frame numbered 255, after which
\* blockNum is 0 again.
C37_Witness ==
    /\ op = "subsMsg" /\ Len(out) = 1 /\ out[1].bytes[3] = 255 /\ blockNum = 0

---------------------------------------------------------------------------
(* Claims on the link events                                                *)

IsLinkEvent(p) == p.originator = name /\ p.msg \in {Connected, Disconnected}

\* The link events among the messages p, in the order published.
LinkEvents(p) == SelectSeq(p, IsLinkEvent)

\* The link events of one step continue the alternation from the value of
\* linkConnected before the step, and linkConnected follows the last of them.
EventsAlternate ==
    LET ev == LinkEvents(pubs')
    IN /\ \A i \in 1..Len(ev) :
             ev[i].msg = IF linkConnected <=> (i % 2 = 1)
                         THEN Disconnected ELSE Connected
       /\ linkConnected' = IF Len(ev) % 2 = 0 THEN linkConnected ELSE ~linkConnected

\* C38: begin() leaves linkConnected false with no link event published, and
\* every operation publishes link events that alternate, the first one being
\* the opposite of the last one published before (connected when there was
\* none), with linkConnected true exactly when the last one is connected.
\* Checked under SpecName.
C38_EventsAlternate ==
    /\ op = "begin" => (~linkConnected /\ pubs = <<>>)
    /\ [][EventsAlternate]_vars

\* C38 witness: the second connected event of a run, for the peer "B" that was
\* connected and timed out before.
C38_Witness ==
    /\ op = "loop" /\ ~pre.linkConnected /\ pre.remoteName = PeerB
    /\ linkConnected /\ LinkEvents(pubs) = <<ConnectedEvent(PeerB)>>

\* The last loop() took the link from connected to disconnected.
TimedOut == op = "loop" /\ pre.linkConnected /\ ~linkConnected

\* C39: the loop() in which either timeout disconnects the session ends with
\* the receiver in SYNC and no buffer held, and a PING dispatched in a
\* disconnected session sets linkConnected and publishes the connected event,
\* however the session came to be disconnected.  Checked under SpecLink.
C39_Recovery ==
    /\ TimedOut => (linkState = "SYNC" /\ NoBuffer)
    /\ (DispatchedOne(MUPING) /\ ~pre.linkConnected)
          => (linkConnected /\ LinkEvents(pubs) = <<ConnectedEvent(disp[1].msg)>>)

\* C39 witness: the peer's PING reconnects a session that knew the peer and
\* had lost it through a timeout.
C39_Witness ==
    /\ DispatchedOne(MUPING) /\ ~pre.linkConnected /\ pre.remoteName = PeerB
    /\ pre.linkState = "SYNC" /\ now > readTimeout
    /\ linkConnected /\ pubs = <<ConnectedEvent(PeerB)>>

=============================================================================
